---- MODULE Spec2Model ----
(***************************************************************************)
(* Verification model of the kuse_cowork backend (src-tauri).              *)
(*                                                                         *)
(* Part 1: the Agent Turn Loop (agent/agent_loop.rs), the Tool Dispatcher  *)
(* (agent/tool_executor.rs, mcp/client.rs execute_tool) and the bounded    *)
(* event channel between the loop and the event-emitter task               *)
(* (commands.rs run_agent / run_task_agent).                               *)
(*                                                                         *)
(* Strings are modelled as sequences of atoms (an atom is one or several   *)
(* characters), so that prefix tests and character replacement are          *)
(* computed, not assumed.  An assistant text is a sequence of lexical      *)
(* tokens: what the regular expressions of parse_plan and                   *)
(* emit_step_markers can match, and filler.                                 *)
(***************************************************************************)
EXTENDS Integers, Sequences, FiniteSets, TLC

VARIABLES
    api_format,     \* self.provider_config.api_format
    max_turns,      \* self.config.max_turns
    history0,       \* the `messages` argument run_with_history was called with
    messages,       \* local `messages` of run_with_history
    turn,           \* local `turn`
    pc,             \* position of the run_with_history future
    deltas,         \* text deltas of the current model stream not yet read
    accumulated,    \* accumulated_text of the stream handler
    text_content,   \* local `text_content` (after parse_response)
    tool_uses,      \* local `tool_uses`   (after parse_response)
    toolIdx,        \* position of `for tool_use in &tool_uses`
    curResult,      \* local `result` of the loop body
    tool_results,   \* local `tool_results`
    outbox,         \* events the current straight-line code segment still has to send
    parked,         \* the loop is suspended inside event_tx.send(..).await
    chan,           \* buffer of the mpsc channel
    rxOpen,         \* the Receiver half is alive
    emitted,        \* every event whose send(..).await has completed, in order
    requests,       \* number of model requests made (send_request calls)
    toolCalls,      \* number of tool_executor.execute calls
    handlerLog,     \* what the selected handler did, per execute call, in order
    result,         \* what run_with_history returned: Ok(messages) / Err(string)
    clients,            \* MCPManager.clients: server id -> transport client
    server_status,      \* MCPManager.server_status: server id -> MCPServerStatus
    managed_processes,  \* MCPManager.managed_processes: server id -> pid of the sidecar
    clients_readers,    \* the futures that hold a read guard of the clients RwLock
    procs,              \* the child processes that are alive
    next_pid,           \* the pid the next spawned child gets
    hash_order,         \* iteration order of server_status.values()
    db,                 \* table mcp_servers: server id -> MCPServerConfig
    cmd_history,        \* per server, the last command that finished for it
    task,               \* the futures running MCP commands: position and locals
    message_id,         \* StdioMcpClient.message_id
    inner_owner,        \* the future that holds StdioMcpClient.inner (a Mutex)
    stdin,              \* what the client wrote to the child's stdin, in order
    stdout,             \* what the child wrote to its stdout and nobody read yet
    answered,           \* the request ids the child has answered
    issued,             \* every request id send_request has drawn, in order
    sreq,               \* the send_request futures: position and locals
    reader,             \* a read_framed_json call: position, locals, input left
    resolver,           \* a ProviderConfig::from_model call: argument and result
    tr,                 \* a stream handler: position, locals, chunks received
    g,                  \* a run against Google: history, requests sent
    task_status         \* table tasks: the status of the task the run works on

loopVars == <<api_format, max_turns, history0, messages, turn, pc, deltas,
              accumulated, text_content, tool_uses, toolIdx, curResult,
              tool_results, outbox, parked, chan, rxOpen, emitted, requests,
              toolCalls, handlerLog, result>>

mcpVars == <<clients, server_status, managed_processes, clients_readers, procs,
             next_pid, hash_order, db, cmd_history, task>>

stdioVars == <<message_id, inner_owner, stdin, stdout, answered, issued, sreq>>

fnVars == <<reader, resolver, tr, g>>

vars == <<loopVars, mcpVars, stdioVars, fnVars, task_status>>

---------------------------------------------------------------------------
(* Bounds of the model *)

\* largest max_turns a run is configured with
MaxTurns == 2

\* capacity of the event channel in the model; the code creates it with
\* capacity 100 (commands.rs:587, commands.rs:1492), the model scales it down
ChanCap == 2

\* longest assistant text (in tokens) of the marker specification
MaxTextLen == 3

---------------------------------------------------------------------------
(* Strings *)

StartsWith(s, p) == Len(s) >= Len(p) /\ SubSeq(s, 1, Len(p)) = p

---------------------------------------------------------------------------
(* agent/types.rs: tool results, messages, events *)

\* ToolResult::success
ToolResult_success(tool_use_id, content) ==
    [tool_use_id |-> tool_use_id, content |-> content, is_error |-> "None"]

\* a slip a handler could make: the error flag is not set
ToolResult_error_unflagged(tool_use_id, error) ==
    [tool_use_id |-> tool_use_id, content |-> error, is_error |-> "None"]

\* ToolResult::error
ToolResult_error(tool_use_id, error) ==
    [tool_use_id |-> tool_use_id, content |-> error, is_error |-> "Some(true)"]

\* AgentMessage with AgentContent::Text
TextMessage(role, text) == [role |-> role, kind |-> "Text", content |-> text]

\* ContentBlock::Text / ContentBlock::ToolUse
TextBlock(text) == [type |-> "text", text |-> text]
ToolUseBlock(tu) == [type |-> "tool_use", id |-> tu.id, name |-> tu.name]

\* AgentEvent variants
EvText(content)    == [type |-> "text", content |-> content]
EvPlan(steps)      == [type |-> "plan", steps |-> steps]
EvStepStart(step)  == [type |-> "step_start", step |-> step]
EvStepDone(step)   == [type |-> "step_done", step |-> step]
EvToolStart(tu)    == [type |-> "tool_start", tool |-> tu.name]
EvToolEnd(tu, r)   == [type |-> "tool_end", tool |-> tu.name,
                       result |-> r.content, success |-> (r.is_error = "None")]
EvTurnComplete_zero_based(t) == [type |-> "turn_complete", turn |-> t - 1]
EvTurnComplete(t)  == [type |-> "turn_complete", turn |-> t]
EvDone(t)          == [type |-> "done", total_turns |-> t]
EvError(message)   == [type |-> "error", message |-> message]

IsTerminal(e) == e.type \in {"done", "error"}

---------------------------------------------------------------------------
(* mcp/client.rs, agent/tool_executor.rs: the Tool Dispatcher *)

\* ids of the configured MCP servers, and the tool names their tools/list returns
Srv1 == <<"gh", "-", "1">>
Srv2 == <<"gh", ":", "1">>
ServerIds == {Srv1, Srv2}
ListRepos == <<"list", ":", "repos">>
ListDashRepos == <<"list", "-", "repos">>

\* MCPTool (description and input_schema are carried along unchanged)
MCPTool(server_id, name) == [server_id |-> server_id, name |-> name]

\* MCPServerStatus; pid 0 and last_error "None" stand for Option::None, and
\* status "Absent" for a server that has no entry in the map
NoStatus ==
    [status |-> "Absent", tools |-> <<>>, last_error |-> "None",
     managed_process |-> FALSE, pid |-> 0]

\* the entry connect_server inserts first
ConnectingStatus ==
    [status |-> "Connecting", tools |-> <<>>, last_error |-> "None",
     managed_process |-> FALSE, pid |-> 0]

\* the entry connect_http_server / connect_stdio_server insert last
ConnectedStatus(tools, managed_process, pid) ==
    [status |-> "Connected", tools |-> tools, last_error |-> "None",
     managed_process |-> managed_process, pid |-> pid]

\* MCPClient in the clients map; kind "None" for a server without a client,
\* child is the pid of the process a StdioMcpClient owns
NoClient == [kind |-> "None", child |-> 0]
HttpClient == [kind |-> "Http", child |-> 0]
StdioClient(child) == [kind |-> "Stdio", child |-> child]

\* the tools of the statuses that are Connected, in iteration order of the map
RECURSIVE ToolsInOrder(_)
ToolsInOrder(order) ==
    IF order = <<>> THEN <<>>
    ELSE (IF server_status[Head(order)].status = "Connected"
          THEN server_status[Head(order)].tools ELSE <<>>)
         \o ToolsInOrder(Tail(order))

\* the tools of the connected MCP servers (MCPManager::get_all_tools)
AllTools == ToolsInOrder(hash_order)

\* str::replace("-", "_").replace(":", "_")
Safe(s) == [i \in 1..Len(s) |-> IF s[i] \in {"-", ":"} THEN "_" ELSE s[i]]

\* format!("mcp_{}_{}", safe_server_id, safe_tool_name)
ExpectedName(tool) ==
    <<"mcp", "_">> \o Safe(tool.server_id) \o <<"_">> \o Safe(tool.name)

\* the first tool of all_tools whose expected name is `name`; 0 when none
MatchingTool(name) ==
    LET hits == {i \in 1..Len(AllTools) : ExpectedName(AllTools[i]) = name}
    IN  IF hits = {} THEN 0 ELSE CHOOSE i \in hits : \A j \in hits : i <= j

\* what the transport and the server can do with one tools/call
McpOutcomes ==
    {"result", "error", "neither", "result_and_error", "transport_failed",
     "timeout", "not_connected"}

\* the outcomes in which the transport returned a JSON-RPC envelope, and the
\* members the envelope has (an envelope can carry "result" next to
\* "error": null)
Envelopes == {"result", "error", "neither", "result_and_error"}
HasError(o) == o \in {"error", "result_and_error"}
HasResult(o) == o \in {"result", "result_and_error"}

\* a slip: the elapsed timer is reported like an answer
TimeoutResult_as_success ==
    [success |-> TRUE, result |-> <<"Tool execution timed out after 60 seconds">>,
     error |-> "None"]

\* MCPManager::execute_tool, the `Err(_)` arm of the match on the result of
\* tokio::time::timeout(Duration::from_secs(60), ..)
TimeoutResult ==
    [success |-> FALSE, result |-> "null",
     error |-> <<"Tool execution timed out after 60 seconds">>]

\* MCPManager::execute_tool: the client lookup, then the match on the result
\* of the timed transport call; an envelope is tested for "error" first
execute_tool(call, o) ==
    IF o = "not_connected"
    THEN [success |-> FALSE, result |-> "null",
          error |-> <<"Server not connected", call.server_id>>]
    ELSE IF o = "timeout" THEN TimeoutResult
    ELSE IF o = "transport_failed"
    THEN [success |-> FALSE, result |-> "null", error |-> <<"Tool execution failed">>]
    ELSE IF HasError(o)
    THEN [success |-> FALSE, result |-> "null", error |-> <<"Tool execution error">>]
    ELSE IF HasResult(o)
    THEN [success |-> TRUE, result |-> <<"mcp result", call.tool_name>>,
          error |-> "None"]
    ELSE [success |-> FALSE, result |-> "null", error |-> <<"Invalid response format">>]

\* the names ToolExecutor::execute maps to built-in handlers
BuiltinTools ==
    { <<"read", "_", "file">>, <<"write", "_", "file">>, <<"edit", "_", "file">>,
      <<"bash">>, <<"glob">>, <<"grep">>, <<"list", "_", "dir">>,
      <<"create", "_", "xlsx", "_", "file">> }

\* what the handler selected for a tool use can do
Outcomes(tool_use) ==
    IF StartsWith(tool_use.name, <<"mcp", "_">>)
    THEN IF MatchingTool(tool_use.name) # 0 THEN McpOutcomes ELSE {"none"}
    ELSE IF StartsWith(tool_use.name, <<"docker", "_">>) THEN {"Ok", "Err"}
    ELSE IF tool_use.name \in BuiltinTools THEN {"Ok", "Err"}
    ELSE {"none"}

\* ToolExecutor::execute; o is the outcome of the selected handler.  The
\* executor of an AgentLoop always holds an MCP manager (new_with_provider),
\* so the "MCP manager not available" branch is not reachable from the loop.
execute(tool_use, o) ==
    IF StartsWith(tool_use.name, <<"mcp", "_">>)
    THEN LET m == MatchingTool(tool_use.name)
         IN  IF m # 0
             THEN LET mcp_call == [server_id |-> AllTools[m].server_id,
                                   tool_name |-> AllTools[m].name]
                      mcp_result == execute_tool(mcp_call, o)
                  IN  IF mcp_result.success
                      THEN ToolResult_success(tool_use.id, mcp_result.result)
                      ELSE ToolResult_error(tool_use.id, mcp_result.error)
             ELSE ToolResult_error(tool_use.id, <<"MCP tool not found", tool_use.name>>)
    ELSE IF StartsWith(tool_use.name, <<"docker", "_">>)
    THEN IF o = "Ok"
         THEN ToolResult_success(tool_use.id, <<"docker output">>)
         ELSE ToolResult_error(tool_use.id, <<"docker error">>)
    ELSE IF tool_use.name \in BuiltinTools
    THEN IF o = "Ok"
         THEN ToolResult_success(tool_use.id, <<"tool output">>)
         ELSE ToolResult_error(tool_use.id, <<"tool error">>)
    ELSE ToolResult_error(tool_use.id, <<"Unknown tool: ", tool_use.name>>)

\* the selected handler failed: an unknown or unresolved name, a local error
\* string, an MCP error envelope / malformed envelope / transport failure /
\* timeout / missing client
HandlerFailed(o) ==
    o \in {"none", "Err", "error", "neither", "result_and_error",
           "transport_failed", "timeout", "not_connected"}

---------------------------------------------------------------------------
(* Assistant text: lexical tokens *)

Chr       == [k |-> "chr",    n |-> 0]     \* text no pattern matches
Start(n)  == [k |-> "start",  n |-> n]     \* "[STEP n START]"
Done(n)   == [k |-> "done",   n |-> n]     \* "[STEP n DONE]"
PlanOpen  == [k |-> "popen",  n |-> 0]     \* "<plan>"
PlanClose == [k |-> "pclose", n |-> 0]     \* "</plan>"
Line(n)   == [k |-> "line",   n |-> n]     \* "n. description\n"

\* positions of the tokens of kind k, ascending (Regex::captures_iter)
RECURSIVE Matches(_, _, _)
Matches(text, k, from) ==
    IF from > Len(text) THEN <<>>
    ELSE IF text[from].k = k THEN <<from>> \o Matches(text, k, from + 1)
    ELSE Matches(text, k, from + 1)

\* AgentLoop::parse_plan: the first <plan>..</plan> block (non-greedy), its
\* numbered lines; None when there is no block or the block has no step
parse_plan(text) ==
    LET opens  == Matches(text, "popen", 1)
        closes == IF opens = <<>> THEN <<>> ELSE Matches(text, "pclose", opens[1] + 1)
    IN  IF opens = <<>> \/ closes = <<>>
        THEN [some |-> FALSE, steps |-> <<>>]
        ELSE LET plan_content == SubSeq(text, opens[1] + 1, closes[1] - 1)
                 lines == Matches(plan_content, "line", 1)
                 steps == [i \in 1..Len(lines) |-> [step |-> plan_content[lines[i]].n]]
             IN  IF steps = <<>> THEN [some |-> FALSE, steps |-> <<>>]
                 ELSE [some |-> TRUE, steps |-> steps]

\* AgentLoop::emit_step_markers: the events it sends, in the order it sends them
emit_step_markers(text) ==
    LET starts == Matches(text, "start", 1)
        dones  == Matches(text, "done", 1)
    IN  [i \in 1..Len(starts) |-> EvStepStart(text[starts[i]].n)]
        \o [i \in 1..Len(dones) |-> EvStepDone(text[dones[i]].n)]

\* a slip: the step markers are scanned before the plan
ParsedEvents_markers_first(text) ==
    emit_step_markers(text)
    \o (IF parse_plan(text).some THEN <<EvPlan(parse_plan(text).steps)>> ELSE <<>>)
    \o (IF text # <<>> THEN <<EvText(text)>> ELSE <<>>)

\* run_with_history, "Parse and emit plan" .. "Emit text content": the events
\* one turn sends for the parsed text_content
ParsedEvents(text) ==
    (IF parse_plan(text).some THEN <<EvPlan(parse_plan(text).steps)>> ELSE <<>>)
    \o emit_step_markers(text)
    \o (IF text # <<>> THEN <<EvText(text)>> ELSE <<>>)

---------------------------------------------------------------------------
(* What the model provider can answer *)

ToolUse(id, name) == [id |-> id, name |-> name]

ReadFile    == <<"read", "_", "file">>
DockerRun   == <<"docker", "_", "run">>
McpList     == <<"mcp", "_", "gh", "_", "1", "_", "list", "_", "repos">>
McpGone     == <<"mcp", "_", "gone", "_", "tool">>
Frobnicate  == <<"frobnicate">>

\* a response is the text deltas of the stream and the tool uses it carries
Responses ==
    { [deltas |-> <<>>, tools |-> <<>>],
      [deltas |-> << <<Chr>> >>, tools |-> <<>>],
      [deltas |-> <<>>, tools |-> << ToolUse("t1", ReadFile) >>],
      [deltas |-> << <<PlanOpen, Line(1)>>, <<PlanClose, Start(1), Done(1)>> >>,
       tools |-> << ToolUse("t1", McpList), ToolUse("t2", McpGone) >>],
      [deltas |-> << <<Chr>> >>,
       tools |-> << ToolUse("t1", DockerRun), ToolUse("t1", Frobnicate) >>] }

\* the ApiFormat values the runs of the model are configured with: one that
\* send_request dispatches (its stream handler can also end without a
\* response) and one that it does not dispatch
ApiFormats == {"Anthropic", "OpenAIResponses"}

\* send_request: the formats it dispatches
SupportedFormats == {"Anthropic", "OpenAI", "OpenAICompatible", "Google"}

\* histories a caller starts a run with
StartHistories ==
    { << TextMessage("user", <<Chr>>) >>,
      << TextMessage("user", <<Chr>>), TextMessage("assistant", <<Chr, Chr>>),
         TextMessage("user", <<Chr>>) >> }

---------------------------------------------------------------------------
(* mcp/client.rs: MCPManager; commands.rs: connect_mcp_server,             *)
(* disconnect_mcp_server.  Each task is one future running a command; a    *)
(* step of a task runs from one await point to a later one.                *)

\* largest pid a child process gets in the model
MaxPid == 3

\* initialize_http_with_retry: unwrap_or(20_000) and sleep(600 ms)
DefaultStartupTimeoutMs == 20000
RetryIntervalMs == 600

Tasks == {"t1", "t2"}

\* the task that runs the connect and disconnect commands, one at a time, and
\* the task that runs the tool calls of an agent
CommandTasks == {"t1"}
ToolTasks == {"t2"}

\* Option<T> as a sequence of at most one element
None == <<>>
Some(x) == <<x>>

\* MCPServerConfig: the fields connect_server reads; oauth stands for
\* oauth_client_id and oauth_client_secret both being set
NoConfig ==
    [transport |-> "", launch_command |-> None, oauth |-> FALSE,
     server_url |-> "", startup_timeout_ms |-> None, enabled |-> FALSE]

\* the rows of mcp_servers: an HTTP server with a managed sidecar and OAuth
\* credentials, and a stdio server
McpConfigs ==
    [id \in ServerIds |->
        IF id = Srv1
        THEN [transport |-> "http", launch_command |-> Some("sidecar"),
              oauth |-> TRUE, server_url |-> "http://127.0.0.1/mcp",
              startup_timeout_ms |-> Some(1000), enabled |-> TRUE]
        ELSE [transport |-> "stdio", launch_command |-> Some("npx"),
              oauth |-> FALSE, server_url |-> "",
              startup_timeout_ms |-> None, enabled |-> TRUE]]

\* normalize_transport
normalize_transport(transport) == IF transport = "stdio" THEN "stdio" ELSE "http"

\* the error messages of the connect path
ErrNotEnabled   == "Server is not enabled"
ErrSpawn        == "Failed to start MCP process"
ErrExitedEarly  == "MCP process exited early"
ErrOAuth        == "OAuth request failed"
ErrNoUrl        == "Server URL is required for HTTP transport"
ErrInitTimeout  == "Connection failed: Timed out waiting for MCP server initialization"
ErrToolsList    == "tools/list failed"
ErrNoCommand    == "Launch command is required for stdio transport"
ErrStdioSpawn   == "Failed to spawn stdio MCP process"
ErrStdioInit    == "Failed stdio initialize in framed and line-delimited modes"

\* the tool names a server's tools/list can return
ToolLists == { <<ListRepos>>, <<ListRepos, ListDashRepos>> }

\* how long one initialize attempt takes (ms)
AttemptDurations == {0, 100}

\* when, after the retry loop started, the server begins to answer
\* initialize (ms): at once, after 19.9 s
ReadyTimes == {0, 19900}

NoCall == [server_id |-> <<>>, tool_name |-> <<>>]
NoMcpResult == [success |-> FALSE, result |-> "null", error |-> "None"]

\* a task that runs no command
IdleTask ==
    [pc |-> "idle", op |-> "none", id |-> <<>>, config |-> NoConfig,
     managed |-> 0, child |-> 0, mode |-> "Framed", elapsed |-> 0,
     ready_at |-> 0, listed |-> <<>>, tools |-> <<>>, ret |-> "None", prior |-> "none",
     intended |-> NoCall, call |-> NoCall, outcome |-> "none",
     result |-> NoMcpResult]

\* a connect or disconnect command for the server is running
Busy(id) ==
    \E t \in Tasks : task[t].op \in {"connect", "disconnect"} /\ task[t].id = id

\* startup_timeout_ms.unwrap_or(20_000)
StartupTimeout(config) ==
    IF config.startup_timeout_ms = None THEN DefaultStartupTimeoutMs
    ELSE config.startup_timeout_ms[1]

\* MCPManager::update_status_error, on the entry of the server
update_status_error(st, error) ==
    IF st.status = "Absent" THEN st
    ELSE [st EXCEPT !.status = "Error", !.last_error = error, !.tools = <<>>,
                    !.pid = 0]

\* connect_server, `if let Err(err) = connect_result`: the status becomes
\* Error and the call returns the message
ConnectFailed(t, msg) ==
    /\ server_status' = [server_status EXCEPT
                            ![task[t].id] = update_status_error(@, msg)]
    /\ task' = [task EXCEPT ![t].pc = "connect_returned", ![t].ret = msg,
                            ![t].elapsed = 0, ![t].ready_at = 0]

\* MCPManager::stop_managed_process: the entry is removed, the child killed
\* and waited for
stop_managed_process(id) ==
    /\ managed_processes' = [managed_processes EXCEPT ![id] = 0]
    /\ procs' = {p \in procs : ~(p.kind = "sidecar" /\ p.pid = managed_processes[id])}

\* a slip: the Connecting entry is inserted before the enabled test
ConnectStart_status_first(t, id) ==
    /\ task[t].pc = "idle"
    /\ next_pid < MaxPid
    /\ LET config == db[id]
           started == [IdleTask EXCEPT !.op = "connect", !.id = id,
                                       !.config = config,
                                       !.prior = cmd_history[id]]
       IN  /\ server_status' = [server_status EXCEPT ![id] = ConnectingStatus]
           /\ IF ~config.enabled
              THEN task' = [task EXCEPT ![t] =
                               [started EXCEPT !.pc = "connect_returned",
                                               !.ret = ErrNotEnabled]]
              ELSE task' = [task EXCEPT ![t] =
                               [started EXCEPT !.pc =
                                   IF normalize_transport(config.transport) = "http"
                                   THEN "spawn" ELSE "stdio_attempt"]]
    /\ UNCHANGED <<clients, managed_processes, clients_readers, procs, next_pid,
                   hash_order, db, cmd_history>>
    /\ UNCHANGED <<loopVars, stdioVars, fnVars, task_status>>

\* connect_mcp_server: the row is read from the database, then
\* connect_server up to its first await after the status insert
ConnectStart(t, id) ==
    /\ task[t].pc = "idle"
    /\ next_pid < MaxPid
    /\ LET config == db[id]
           started == [IdleTask EXCEPT !.op = "connect", !.id = id,
                                       !.config = config,
                                       !.prior = cmd_history[id]]
       IN  IF ~config.enabled
           THEN /\ task' = [task EXCEPT ![t] =
                               [started EXCEPT !.pc = "connect_returned",
                                               !.ret = ErrNotEnabled]]
                /\ UNCHANGED server_status
           ELSE /\ server_status' = [server_status EXCEPT ![id] = ConnectingStatus]
                /\ task' = [task EXCEPT ![t] =
                               [started EXCEPT !.pc =
                                   IF normalize_transport(config.transport) = "http"
                                   THEN "spawn" ELSE "stdio_attempt"]]
    /\ UNCHANGED <<clients, managed_processes, clients_readers, procs, next_pid,
                   hash_order, db, cmd_history>>
    /\ UNCHANGED <<loopVars, stdioVars, fnVars, task_status>>

\* a connect command issued while no other command runs for the server
ConnectCommand(t, id) == ~Busy(id) /\ ConnectStart(t, id)

\* start_managed_process_if_needed up to `sleep(250 ms).await`: the entry of
\* the server is looked up under the write guard (a live one is reused, a
\* dead one removed), then the command is spawned; the Child is a local of
\* the call while it sleeps
SidecarSpawn(t) ==
    /\ task[t].pc = "spawn"
    /\ LET id == task[t].id
           alive == \E p \in procs : p.pid = managed_processes[id]
       IN  IF task[t].config.launch_command = None
           THEN /\ task' = [task EXCEPT ![t].pc = "oauth", ![t].managed = 0]
                /\ UNCHANGED <<server_status, managed_processes, procs, next_pid>>
           ELSE IF managed_processes[id] # 0 /\ alive
           THEN /\ task' = [task EXCEPT ![t].pc = "oauth",
                                        ![t].managed = managed_processes[id]]
                /\ UNCHANGED <<server_status, managed_processes, procs, next_pid>>
           ELSE /\ managed_processes' = [managed_processes EXCEPT ![id] = 0]
                /\ \/ /\ ConnectFailed(t, ErrSpawn)
                      /\ UNCHANGED <<procs, next_pid>>
                   \/ /\ procs' = procs \cup
                             {[pid |-> next_pid, server_id |-> id, kind |-> "sidecar"]}
                      /\ next_pid' = next_pid + 1
                      /\ task' = [task EXCEPT ![t].pc = "spawn_sleep",
                                              ![t].child = next_pid]
                      /\ UNCHANGED server_status
    /\ UNCHANGED <<clients, clients_readers, hash_order, db, cmd_history>>
    /\ UNCHANGED <<loopVars, stdioVars, fnVars, task_status>>

\* start_managed_process_if_needed after the sleep: try_wait, then
\* `processes.insert(id, ManagedProcess { child, pid })`, which replaces an
\* entry another call put there; the replaced Child is dropped and its
\* process keeps running
SidecarRegister(t) ==
    /\ task[t].pc = "spawn_sleep"
    /\ \/ /\ procs' = {p \in procs : p.pid # task[t].child}
          /\ ConnectFailed(t, ErrExitedEarly)
          /\ UNCHANGED managed_processes
       \/ /\ managed_processes' = [managed_processes EXCEPT ![task[t].id] = task[t].child]
          /\ task' = [task EXCEPT ![t].pc = "oauth", ![t].managed = task[t].child,
                                  ![t].child = 0]
          /\ UNCHANGED <<server_status, procs>>
    /\ UNCHANGED <<clients, clients_readers, next_pid, hash_order, db, cmd_history>>
    /\ UNCHANGED <<loopVars, stdioVars, fnVars, task_status>>

\* connect_http_server: start_managed_process_if_needed, when no other call
\* runs between its lookup and its insert
HttpSpawn(t) ==
    /\ task[t].pc = "spawn"
    /\ LET id == task[t].id
           config == task[t].config
           alive == \E p \in procs : p.pid = managed_processes[id]
       IN  IF config.launch_command = None
           THEN /\ task' = [task EXCEPT ![t].pc = "oauth", ![t].managed = 0]
                /\ UNCHANGED <<server_status, managed_processes, procs, next_pid>>
           ELSE IF managed_processes[id] # 0 /\ alive
           THEN /\ task' = [task EXCEPT ![t].pc = "oauth",
                                        ![t].managed = managed_processes[id]]
                /\ UNCHANGED <<server_status, managed_processes, procs, next_pid>>
           ELSE \/ /\ ConnectFailed(t, ErrSpawn)
                   /\ managed_processes' = [managed_processes EXCEPT ![id] = 0]
                   /\ UNCHANGED <<procs, next_pid>>
                \/ /\ ConnectFailed(t, ErrExitedEarly)
                   /\ managed_processes' = [managed_processes EXCEPT ![id] = 0]
                   /\ next_pid' = next_pid + 1
                   /\ UNCHANGED procs
                \/ /\ procs' = procs \cup
                          {[pid |-> next_pid, server_id |-> id, kind |-> "sidecar"]}
                   /\ managed_processes' = [managed_processes EXCEPT ![id] = next_pid]
                   /\ next_pid' = next_pid + 1
                   /\ task' = [task EXCEPT ![t].pc = "oauth", ![t].managed = next_pid]
                   /\ UNCHANGED server_status
    /\ UNCHANGED <<clients, clients_readers, hash_order, db, cmd_history>>
    /\ UNCHANGED <<loopVars, stdioVars, fnVars, task_status>>

\* connect_http_server: perform_oauth_flow when credentials are configured,
\* then the server_url test
HttpOAuth(t) ==
    /\ task[t].pc = "oauth"
    /\ \/ /\ task[t].config.oauth
          /\ ConnectFailed(t, ErrOAuth)
       \/ IF task[t].config.server_url = ""
          THEN ConnectFailed(t, ErrNoUrl)
          ELSE /\ \E r \in ReadyTimes :
                     task' = [task EXCEPT ![t].pc = "http_init", ![t].elapsed = 0,
                                          ![t].ready_at = r]
               /\ UNCHANGED server_status
    /\ UNCHANGED <<clients, managed_processes, clients_readers, procs, next_pid,
                   hash_order, db, cmd_history>>
    /\ UNCHANGED <<loopVars, stdioVars, fnVars, task_status>>

\* initialize_http_with_retry: `while started.elapsed() < timeout`
RetryWindowOpen(elapsed, timeout) == elapsed < timeout

\* initialize_http_with_retry: one pass of the loop, client.initialize() and,
\* when it fails, sleep(600 ms)
HttpInitAttempt(t) ==
    /\ task[t].pc = "http_init"
    /\ RetryWindowOpen(task[t].elapsed, StartupTimeout(task[t].config))
    /\ \E d \in AttemptDurations :
          IF task[t].elapsed >= task[t].ready_at
          THEN task' = [task EXCEPT ![t].pc = "tools", ![t].elapsed = 0,
                                    ![t].ready_at = 0]
          ELSE task' = [task EXCEPT ![t].elapsed =
                                        task[t].elapsed + d + RetryIntervalMs]
    /\ UNCHANGED <<clients, server_status, managed_processes, clients_readers,
                   procs, next_pid, hash_order, db, cmd_history>>
    /\ UNCHANGED <<loopVars, stdioVars, fnVars, task_status>>

\* initialize_http_with_retry leaves the loop with the timeout error:
\* connect_http_server stops the managed process and fails
HttpInitTimeout(t) ==
    /\ task[t].pc = "http_init"
    /\ ~RetryWindowOpen(task[t].elapsed, StartupTimeout(task[t].config))
    /\ stop_managed_process(task[t].id)
    /\ ConnectFailed(t, ErrInitTimeout)
    /\ UNCHANGED <<clients, clients_readers, next_pid, hash_order, db, cmd_history>>
    /\ UNCHANGED <<loopVars, stdioVars, fnVars, task_status>>

\* connect_stdio_server: one pass of `for mode in [Framed, LineDelimited]`:
\* StdioMcpClient::new, set_mode, initialize, and shutdown when it failed
StdioAttempt(t) ==
    /\ task[t].pc = "stdio_attempt"
    /\ IF task[t].config.launch_command = None
       THEN /\ ConnectFailed(t, ErrNoCommand)
            /\ UNCHANGED <<procs, next_pid>>
       ELSE \/ /\ ConnectFailed(t, ErrStdioSpawn)
               /\ UNCHANGED <<procs, next_pid>>
            \/ /\ next_pid' = next_pid + 1
               /\ UNCHANGED procs
               /\ IF task[t].mode = "Framed"
                  THEN /\ task' = [task EXCEPT ![t].mode = "LineDelimited"]
                       /\ UNCHANGED server_status
                  ELSE ConnectFailed(t, ErrStdioInit)
            \/ /\ procs' = procs \cup
                      {[pid |-> next_pid, server_id |-> task[t].id, kind |-> "stdio"]}
               /\ next_pid' = next_pid + 1
               /\ task' = [task EXCEPT ![t].pc = "tools", ![t].child = next_pid]
               /\ UNCHANGED server_status
    /\ UNCHANGED <<clients, managed_processes, clients_readers, hash_order, db,
                   cmd_history>>
    /\ UNCHANGED <<loopVars, stdioVars, fnVars, task_status>>

\* a slip: the tools are tagged with the id of the first configured server
discover_tools_wrong_tag(server_id, names) ==
    [i \in 1..Len(names) |-> MCPTool(Srv1, names[i])]

\* MCPManager::discover_tools on a tools/list response carrying `names`
discover_tools(server_id, names) ==
    [i \in 1..Len(names) |-> MCPTool(server_id, names[i])]

\* `let tools = self.discover_tools(..).await?`: a failing tools/list makes
\* the connect return at the `?`; the transport client is dropped there (its
\* child, if any, is not killed: the Command is built without kill_on_drop)
DiscoverTools(t) ==
    /\ task[t].pc = "tools"
    /\ \/ ConnectFailed(t, ErrToolsList)
       \/ /\ \E names \in ToolLists :
                task' = [task EXCEPT ![t].pc = "insert_client",
                                     ![t].listed = names,
                                     ![t].tools = discover_tools(task[t].id, names)]
          /\ UNCHANGED server_status
    /\ UNCHANGED <<clients, managed_processes, clients_readers, procs, next_pid,
                   hash_order, db, cmd_history>>
    /\ UNCHANGED <<loopVars, stdioVars, fnVars, task_status>>

\* discover_tools on a stdio client, up to the first read: list_tools is
\* send_request("tools/list"), which takes the client's lock and writes the
\* request; a failed write returns at the `?`
StdioListToolsWrite(t) ==
    /\ task[t].pc = "tools"
    /\ normalize_transport(task[t].config.transport) = "stdio"
    /\ \/ ConnectFailed(t, ErrToolsList)
       \/ /\ task' = [task EXCEPT ![t].pc = "tools_wait"]
          /\ UNCHANGED server_status
    /\ UNCHANGED <<clients, managed_processes, clients_readers, procs, next_pid,
                   hash_order, db, cmd_history>>
    /\ UNCHANGED <<loopVars, stdioVars, fnVars, task_status>>

\* the child's answer to tools/list reaches `read_framed_json(..).await?` of
\* send_request: a message with the request's id ends the loop, an end of
\* file or an unreadable frame returns at the `?`.  The read has no timer
\* around it: the step is taken when the child writes, and only then
StdioListToolsRead(t) ==
    /\ task[t].pc = "tools_wait"
    /\ \/ ConnectFailed(t, ErrToolsList)
       \/ /\ \E names \in ToolLists :
                task' = [task EXCEPT ![t].pc = "insert_client",
                                     ![t].listed = names,
                                     ![t].tools = discover_tools(task[t].id, names)]
          /\ UNCHANGED server_status
    /\ UNCHANGED <<clients, managed_processes, clients_readers, procs, next_pid,
                   hash_order, db, cmd_history>>
    /\ UNCHANGED <<loopVars, stdioVars, fnVars, task_status>>

\* discover_tools on an HTTP client
HttpDiscoverTools(t) ==
    /\ normalize_transport(task[t].config.transport) = "http"
    /\ DiscoverTools(t)

\* `let mut clients = self.clients.write().await; clients.insert(..)`: the
\* write guard is granted when no read guard is held
InsertClient(t) ==
    /\ task[t].pc = "insert_client"
    /\ clients_readers = {}
    /\ clients' = [clients EXCEPT ![task[t].id] =
                      IF normalize_transport(task[t].config.transport) = "http"
                      THEN HttpClient ELSE StdioClient(task[t].child)]
    /\ task' = [task EXCEPT ![t].pc = "publish"]
    /\ UNCHANGED <<server_status, managed_processes, clients_readers, procs,
                   next_pid, hash_order, db, cmd_history>>
    /\ UNCHANGED <<loopVars, stdioVars, fnVars, task_status>>

\* the Connected entry is inserted and connect_server returns Ok
Publish(t) ==
    /\ task[t].pc = "publish"
    /\ server_status' = [server_status EXCEPT ![task[t].id] =
          IF normalize_transport(task[t].config.transport) = "http"
          THEN ConnectedStatus(task[t].tools, task[t].managed # 0, task[t].managed)
          ELSE ConnectedStatus(task[t].tools, TRUE, task[t].child)]
    /\ task' = [task EXCEPT ![t].pc = "connect_returned", ![t].ret = "Ok"]
    /\ UNCHANGED <<clients, managed_processes, clients_readers, procs, next_pid,
                   hash_order, db, cmd_history>>
    /\ UNCHANGED <<loopVars, stdioVars, fnVars, task_status>>

\* connect_mcp_server after connect_server returned: on Ok,
\* update_mcp_server_enabled(id, true)
ConnectReturn(t) ==
    /\ task[t].pc = "connect_returned"
    /\ db' = IF task[t].ret = "Ok"
             THEN [db EXCEPT ![task[t].id].enabled = TRUE] ELSE db
    /\ cmd_history' = [cmd_history EXCEPT ![task[t].id] =
                          IF task[t].ret = "Ok" THEN "connect" ELSE "connect_failed"]
    /\ task' = [task EXCEPT ![t] = IdleTask]
    /\ UNCHANGED <<clients, server_status, managed_processes, clients_readers,
                   procs, next_pid, hash_order>>
    /\ UNCHANGED <<loopVars, stdioVars, fnVars, task_status>>

\* the connect_server future is dropped while it is suspended at one of the
\* awaits that follow start_managed_process_if_needed (the OAuth flow, the
\* initialize retries, tools/list, the clients write lock): its locals are
\* dropped; the Child sits in managed_processes, which the manager owns, and
\* no destructor of the future removes or kills it
DropConnect(t) ==
    /\ task[t].op = "connect"
    /\ task[t].pc \in {"oauth", "http_init", "tools", "insert_client"}
    /\ task' = [task EXCEPT ![t] = IdleTask]
    /\ cmd_history' = [cmd_history EXCEPT ![task[t].id] =
                          IF task[t].managed # 0 THEN "sidecar_connect_dropped"
                          ELSE "connect_dropped"]
    /\ UNCHANGED <<clients, server_status, managed_processes, clients_readers,
                   procs, next_pid, hash_order, db>>
    /\ UNCHANGED <<loopVars, stdioVars, fnVars, task_status>>

\* disconnect_mcp_server: disconnect_server is called
DisconnectStart(t, id) ==
    /\ task[t].pc = "idle"
    /\ task' = [task EXCEPT ![t] =
                   [IdleTask EXCEPT !.pc = "remove_client", !.op = "disconnect",
                                    !.id = id,
                                    !.prior = server_status[id].status]]
    /\ UNCHANGED <<clients, server_status, managed_processes, clients_readers,
                   procs, next_pid, hash_order, db, cmd_history>>
    /\ UNCHANGED <<loopVars, stdioVars, fnVars, task_status>>

\* a disconnect command issued while no other command runs for the server
DisconnectCommand(t, id) == ~Busy(id) /\ DisconnectStart(t, id)

\* disconnect_server: the client is removed under the write guard; a stdio
\* client is shut down (its child killed and waited for)
RemoveClient(t) ==
    /\ task[t].pc = "remove_client"
    /\ clients_readers = {}
    /\ clients' = [clients EXCEPT ![task[t].id] = NoClient]
    /\ procs' = IF clients[task[t].id].kind = "Stdio"
                THEN {p \in procs : p.pid # clients[task[t].id].child}
                ELSE procs
    /\ task' = [task EXCEPT ![t].pc = "stop"]
    /\ UNCHANGED <<server_status, managed_processes, clients_readers, next_pid,
                   hash_order, db, cmd_history>>
    /\ UNCHANGED <<loopVars, stdioVars, fnVars, task_status>>

\* a slip: the error of an earlier connect survives the disconnect
DisconnectedStatus_keep_error(st) ==
    IF st.status = "Absent" THEN st
    ELSE [st EXCEPT !.status = "Disconnected", !.tools = <<>>,
                    !.managed_process = FALSE, !.pid = 0]

\* disconnect_server: `if let Some(status) = status_map.get_mut(server_id)`
DisconnectedStatus(st) ==
    IF st.status = "Absent" THEN st
    ELSE [st EXCEPT !.status = "Disconnected", !.tools = <<>>,
                    !.last_error = "None", !.managed_process = FALSE, !.pid = 0]

\* disconnect_server: stop_managed_process, the status update, return
StopAndMark(t) ==
    /\ task[t].pc = "stop"
    /\ stop_managed_process(task[t].id)
    /\ server_status' = [server_status EXCEPT ![task[t].id] = DisconnectedStatus(@)]
    /\ task' = [task EXCEPT ![t].pc = "disconnect_returned"]
    /\ UNCHANGED <<clients, clients_readers, next_pid, hash_order, db, cmd_history>>
    /\ UNCHANGED <<loopVars, stdioVars, fnVars, task_status>>

\* disconnect_mcp_server after disconnect_server returned:
\* update_mcp_server_enabled(id, false)
DisconnectReturn(t) ==
    /\ task[t].pc = "disconnect_returned"
    /\ db' = [db EXCEPT ![task[t].id].enabled = FALSE]
    /\ cmd_history' = [cmd_history EXCEPT ![task[t].id] =
                          IF task[t].prior = "Connected"
                          THEN "disconnect_of_connected"
                          ELSE IF task[t].prior = "Connecting"
                          THEN "disconnect_during_connect" ELSE "disconnect"]
    /\ task' = [task EXCEPT ![t] = IdleTask]
    /\ UNCHANGED <<clients, server_status, managed_processes, clients_readers,
                   procs, next_pid, hash_order>>
    /\ UNCHANGED <<loopVars, stdioVars, fnVars, task_status>>

\* the call ToolExecutor::execute builds for a name: the first tool of
\* get_all_tools() whose expected name is the name
ResolvedCall(name) ==
    [server_id |-> AllTools[MatchingTool(name)].server_id,
     tool_name |-> AllTools[MatchingTool(name)].name]

\* the model asks for a tool it was offered: ToolExecutor::execute resolves
\* the name, MCPManager::execute_tool takes the read guard of the clients map
\* and looks the client up
ExecuteStart(t) ==
    /\ task[t].pc = "idle"
    /\ \E i \in 1..Len(AllTools) :
          LET name == ExpectedName(AllTools[i])
              call == ResolvedCall(name)
              started == [IdleTask EXCEPT !.op = "execute",
                             !.intended = [server_id |-> AllTools[i].server_id,
                                           tool_name |-> AllTools[i].name],
                             !.call = call]
          IN  IF clients[call.server_id] = NoClient
              THEN /\ task' = [task EXCEPT ![t] =
                                  [started EXCEPT !.pc = "execute_returned",
                                       !.outcome = "not_connected",
                                       !.result = execute_tool(call, "not_connected")]]
                   /\ UNCHANGED clients_readers
              ELSE /\ task' = [task EXCEPT ![t] = [started EXCEPT !.pc = "transport"]]
                   /\ clients_readers' = clients_readers \cup {t}
    /\ UNCHANGED <<clients, server_status, managed_processes, procs, next_pid,
                   hash_order, db, cmd_history>>
    /\ UNCHANGED <<loopVars, stdioVars, fnVars, task_status>>

\* execute_tool: the transport call completes or the 60 s timer fires; the
\* result is built and the function returns, which drops the read guard
ExecuteTransport(t) ==
    /\ task[t].pc = "transport"
    /\ \E o \in McpOutcomes \ {"not_connected"} :
          task' = [task EXCEPT ![t] =
                      [IdleTask EXCEPT !.pc = "execute_returned", !.op = "execute",
                                       !.outcome = o,
                                       !.result = execute_tool(task[t].call, o)]]
    /\ clients_readers' = clients_readers \ {t}
    /\ UNCHANGED <<clients, server_status, managed_processes, procs, next_pid,
                   hash_order, db, cmd_history>>
    /\ UNCHANGED <<loopVars, stdioVars, fnVars, task_status>>

\* the caller takes the MCPToolResult
ExecuteReturn(t) ==
    /\ task[t].pc = "execute_returned"
    /\ task' = [task EXCEPT ![t] = IdleTask]
    /\ UNCHANGED <<clients, server_status, managed_processes, clients_readers,
                   procs, next_pid, hash_order, db, cmd_history>>
    /\ UNCHANGED <<loopVars, stdioVars, fnVars, task_status>>

\* the manager as the agent loop sees it: the first server is connected and
\* offers one tool, no command is running
LoopMcpState ==
    /\ clients = [id \in ServerIds |-> IF id = Srv1 THEN HttpClient ELSE NoClient]
    /\ server_status = [id \in ServerIds |->
          IF id = Srv1 THEN ConnectedStatus(<<MCPTool(Srv1, ListRepos)>>, FALSE, 0)
          ELSE NoStatus]
    /\ managed_processes = [id \in ServerIds |-> 0]
    /\ clients_readers = {}
    /\ procs = {}
    /\ next_pid = 1
    /\ hash_order = <<Srv1, Srv2>>
    /\ db = McpConfigs
    /\ cmd_history = [id \in ServerIds |-> "none"]
    /\ task = [t \in Tasks |-> IdleTask]

\* MCPManager::new, the servers saved and enabled
NewManager ==
    /\ clients = [id \in ServerIds |-> NoClient]
    /\ server_status = [id \in ServerIds |-> NoStatus]
    /\ managed_processes = [id \in ServerIds |-> 0]
    /\ clients_readers = {}
    /\ procs = {}
    /\ next_pid = 1
    /\ hash_order \in {<<Srv1, Srv2>>, <<Srv2, Srv1>>}
    /\ db = McpConfigs
    /\ cmd_history = [id \in ServerIds |-> "none"]
    /\ task = [t \in Tasks |-> IdleTask]

---------------------------------------------------------------------------
(* mcp/stdio_client.rs: StdioMcpClient::send_request against a child that  *)
(* answers requests in any order and writes unsolicited messages           *)

\* number of requests the callers make of one client
MaxRequests == 2

\* number of unread messages the pipe from the child holds
MaxBacklog == 2

Requesters == {"r1", "r2"}

\* JSON-RPC messages; a message without an id has has_id FALSE
Request(id)  == [kind |-> "request", has_id |-> TRUE, id |-> id]
Response(id) == [kind |-> "response", has_id |-> TRUE, id |-> id]
Notification == [kind |-> "notification", has_id |-> FALSE, id |-> 0]
NonObject    == [kind |-> "non_object", has_id |-> FALSE, id |-> 0]
NoMessage    == [kind |-> "none", has_id |-> FALSE, id |-> 0]

\* a slip: any message that carries an id is taken for the response
IdMatches_any_id(message, id) == message.kind # "non_object" /\ message.has_id

\* `message.as_object()` and
\* `obj.get("id").and_then(|v| v.as_u64()) == Some(id)`
IdMatches(message, id) ==
    message.kind # "non_object" /\ message.has_id /\ message.id = id

\* a send_request future that is not running; discarded is the message its
\* read loop skipped last
IdleReq ==
    [pc |-> "idle", id |-> 0, got |-> NoMessage, discarded |-> NoMessage,
     ret |-> "None"]

\* send_request: `self.message_id.fetch_add(1, SeqCst)`
ReqStart(r) ==
    /\ sreq[r].pc = "idle"
    /\ message_id <= MaxRequests
    /\ sreq' = [sreq EXCEPT ![r] = [IdleReq EXCEPT !.pc = "lock", !.id = message_id]]
    /\ message_id' = message_id + 1
    /\ issued' = Append(issued, message_id)
    /\ UNCHANGED <<inner_owner, stdin, stdout, answered>>
    /\ UNCHANGED <<loopVars, mcpVars, fnVars, task_status>>

\* send_request: `self.inner.lock().await` and write_json_with_mode; a
\* failed write returns at the `?`, which drops the guard
ReqWrite(r) ==
    /\ sreq[r].pc = "lock"
    /\ inner_owner = "None"
    /\ \/ /\ inner_owner' = r
          /\ stdin' = Append(stdin, Request(sreq[r].id))
          /\ sreq' = [sreq EXCEPT ![r].pc = "read"]
       \/ /\ sreq' = [sreq EXCEPT ![r].pc = "returned", ![r].ret = "Err"]
          /\ UNCHANGED <<inner_owner, stdin>>
    /\ UNCHANGED <<message_id, stdout, answered, issued>>
    /\ UNCHANGED <<loopVars, mcpVars, fnVars, task_status>>

\* send_request: one pass of the read loop over a message of the child
ReqRead(r) ==
    /\ sreq[r].pc = "read"
    /\ stdout # <<>>
    /\ stdout' = Tail(stdout)
    /\ IF IdMatches(Head(stdout), sreq[r].id)
       THEN /\ sreq' = [sreq EXCEPT ![r].pc = "returned", ![r].ret = "Ok",
                                    ![r].got = Head(stdout)]
            /\ inner_owner' = "None"
       ELSE /\ sreq' = [sreq EXCEPT ![r].discarded = Head(stdout)]
            /\ UNCHANGED inner_owner
    /\ UNCHANGED <<message_id, stdin, answered, issued>>
    /\ UNCHANGED <<loopVars, mcpVars, fnVars, task_status>>

\* send_request: read_framed_json fails (the stream is closed, a message does
\* not parse); the `?` returns the error and drops the guard
ReqReadFailed(r) ==
    /\ sreq[r].pc = "read"
    /\ sreq' = [sreq EXCEPT ![r].pc = "returned", ![r].ret = "Err"]
    /\ inner_owner' = "None"
    /\ UNCHANGED <<message_id, stdin, stdout, answered, issued>>
    /\ UNCHANGED <<loopVars, mcpVars, fnVars, task_status>>

\* the caller takes the result of send_request
ReqReturn(r) ==
    /\ sreq[r].pc = "returned"
    /\ sreq' = [sreq EXCEPT ![r] = IdleReq]
    /\ UNCHANGED <<message_id, inner_owner, stdin, stdout, answered, issued>>
    /\ UNCHANGED <<loopVars, mcpVars, fnVars, task_status>>

\* the child answers a request it has read and not answered yet, at any time
\* (also after the request has given up)
ChildAnswer ==
    /\ Len(stdout) < MaxBacklog
    /\ \E i \in 1..Len(stdin) :
          /\ stdin[i].id \notin answered
          /\ stdout' = Append(stdout, Response(stdin[i].id))
          /\ answered' = answered \cup {stdin[i].id}
    /\ UNCHANGED <<message_id, inner_owner, stdin, issued, sreq>>
    /\ UNCHANGED <<loopVars, mcpVars, fnVars, task_status>>

\* the child writes a message nobody asked for: a notification, JSON that is
\* no object
ChildEmit ==
    /\ Len(stdout) < MaxBacklog
    /\ \E m \in {Notification, NonObject} : stdout' = Append(stdout, m)
    /\ UNCHANGED <<message_id, inner_owner, stdin, answered, issued, sreq>>
    /\ UNCHANGED <<loopVars, mcpVars, fnVars, task_status>>

\* StdioMcpClient::new: ids start at 1, the mutex is free, nothing was written
NewStdioClient ==
    /\ message_id = 1
    /\ inner_owner = "None"
    /\ stdin = <<>>
    /\ stdout = <<>>
    /\ answered = {}
    /\ issued = <<>>
    /\ sreq = [r \in Requesters |-> IdleReq]

---------------------------------------------------------------------------
(* mcp/stdio_client.rs: read_framed_json over what a child wrote to its    *)
(* stdout.  The output is a sequence of lines; a line is known by what the *)
(* reader can tell of it.                                                  *)

\* number of lines of the child's output the reader is run over
MaxLines == 4

BlankLine   == [k |-> "blank", n |-> 0]        \* "\n", "  \r\n"
Banner      == [k |-> "banner", n |-> 0]       \* "Starting server...\n"
LogColon    == [k |-> "log_colon", n |-> 0]    \* "INFO: listening\n"
BadLength   == [k |-> "bad_length", n |-> 0]   \* "Content-Length: unknown\n"
LengthHeader(n) == [k |-> "length", n |-> n]   \* "Content-Length: n\r\n"
Json(n)     == [k |-> "json", n |-> n]         \* a JSON object of n bytes
BrokenJson  == [k |-> "broken_json", n |-> 0]  \* "{" and text that is no JSON

StdoutLines ==
    {BlankLine, Banner, LogColon, BadLength, LengthHeader(1), LengthHeader(2),
     Json(1), Json(2), BrokenJson}

\* the outputs the reader is run over
StdoutTexts == UNION {[1..k -> StdoutLines] : k \in 0..MaxLines}

\* Result<Value, ..> of read_framed_json; NoRead while it has not returned
NoLine == [k |-> "none", n |-> 0]
NoRead == [tag |-> "None", message |-> NoLine]
ReadOk(message) == [tag |-> "Ok", message |-> message]
ReadErr == [tag |-> "Err", message |-> NoLine]

\* `trimmed.starts_with('{')`
StartsJson(line) == line.k \in {"json", "broken_json"}

\* `line.split_once(':')` gives a key that is Content-Length, whatever case
IsLengthKey(line) == line.k \in {"length", "bad_length"}

\* no read_framed_json call is under way
IdleReader ==
    [pc |-> "idle", input |-> <<>>, content_length |-> 0, ret |-> NoRead,
     all |-> <<>>]

\* read_framed_json, one pass of the outer loop: read_line and the tests on
\* the line
ScanLine ==
    /\ reader.pc = "scan"
    /\ IF reader.input = <<>>
       THEN reader' = [reader EXCEPT !.pc = "returned", !.ret = ReadErr]
       ELSE LET line == Head(reader.input)
                rest == Tail(reader.input)
            IN  IF line.k = "blank"
                THEN reader' = [reader EXCEPT !.input = rest]
                ELSE IF StartsJson(line)
                THEN reader' = [reader EXCEPT !.input = rest, !.pc = "returned",
                                   !.ret = IF line.k = "json" THEN ReadOk(line)
                                           ELSE ReadErr]
                ELSE IF line.k = "banner" \/ ~IsLengthKey(line)
                THEN reader' = [reader EXCEPT !.input = rest]
                ELSE IF line.k = "length"
                THEN reader' = [reader EXCEPT !.input = rest, !.pc = "headers",
                                              !.content_length = line.n]
                ELSE reader' = [reader EXCEPT !.input = rest, !.pc = "returned",
                                              !.ret = ReadErr]
    /\ UNCHANGED <<resolver, tr, g>>
    /\ UNCHANGED <<loopVars, mcpVars, stdioVars, task_status>>

\* read_framed_json, "Read remaining headers until blank line": one pass
ReadHeader ==
    /\ reader.pc = "headers"
    /\ IF reader.input = <<>>
       THEN reader' = [reader EXCEPT !.pc = "returned", !.ret = ReadErr]
       ELSE LET header == Head(reader.input)
                rest == Tail(reader.input)
            IN  IF header.k = "blank"
                THEN reader' = [reader EXCEPT !.input = rest, !.pc = "body"]
                ELSE IF header.k = "length"
                THEN reader' = [reader EXCEPT !.input = rest,
                                              !.content_length = header.n]
                ELSE IF header.k = "bad_length"
                THEN reader' = [reader EXCEPT !.input = rest, !.pc = "returned",
                                              !.ret = ReadErr]
                ELSE reader' = [reader EXCEPT !.input = rest]
    /\ UNCHANGED <<resolver, tr, g>>
    /\ UNCHANGED <<loopVars, mcpVars, stdioVars, task_status>>

\* read_framed_json: read_exact of content_length bytes and from_slice; the
\* bytes are a message when they are exactly one JSON object
ReadBody ==
    /\ reader.pc = "body"
    /\ IF reader.input # <<>> /\ Head(reader.input).k = "json"
            /\ Head(reader.input).n = reader.content_length
       THEN reader' = [reader EXCEPT !.input = Tail(reader.input),
                          !.pc = "returned", !.ret = ReadOk(Head(reader.input))]
       ELSE reader' = [reader EXCEPT !.pc = "returned", !.ret = ReadErr]
    /\ UNCHANGED <<resolver, tr, g>>
    /\ UNCHANGED <<loopVars, mcpVars, stdioVars, task_status>>

---------------------------------------------------------------------------
(* mcp/stdio_client.rs: send_request in Framed mode, await by await, under  *)
(* the 60 s timeout of execute_tool.  stdin and stdout hold the pieces of   *)
(* the frames written to the two pipes and not read yet; the message with   *)
(* id n has a body of n bytes.  The child writes a frame at once; whether   *)
(* the reader saw all of it before the timer fired is the reader's to tell. *)

\* the body of a frame (it ends without a newline), and what is left of a
\* body when a dropped read_exact had taken its first bytes
Body(n)     == [k |-> "body", n |-> n]
BodyTail(n) == [k |-> "body_tail", n |-> n]

\* the frame Header(id), Body(id) lies in stdin behind whole frames only, so
\* the child can read it
WellFramed(i) ==
    /\ i + 1 <= Len(stdin)
    /\ stdin[i].k = "length" /\ stdin[i + 1] = Body(stdin[i].n)
    /\ \A j \in 1..(i - 1) :
          (j % 2 = 1) => (stdin[j].k = "length" /\ stdin[j + 1] = Body(stdin[j].n))
    /\ i % 2 = 1

\* the guard on `inner` is dropped with the future or at its return
Release(r) == inner_owner' = IF inner_owner = r THEN "None" ELSE inner_owner

\* send_request: `self.inner.lock().await`, then write_json_with_mode:
\* `stdin.write_all(header.as_bytes()).await?`
WriteHeader(r) ==
    /\ sreq[r].pc = "lock"
    /\ inner_owner = "None"
    /\ inner_owner' = r
    /\ stdin' = Append(stdin, LengthHeader(sreq[r].id))
    /\ sreq' = [sreq EXCEPT ![r].pc = "write_payload"]
    /\ UNCHANGED <<message_id, stdout, answered, issued>>
    /\ UNCHANGED <<loopVars, mcpVars, fnVars, task_status>>

\* write_json_with_mode: `stdin.write_all(&payload).await?` and the flush
WritePayload(r) ==
    /\ sreq[r].pc = "write_payload"
    /\ stdin' = Append(stdin, Body(sreq[r].id))
    /\ sreq' = [sreq EXCEPT ![r].pc = "scan"]
    /\ UNCHANGED <<message_id, inner_owner, stdout, answered, issued>>
    /\ UNCHANGED <<loopVars, mcpVars, fnVars, task_status>>

\* read_framed_json, outer loop: `stdout.read_line(&mut line).await?` and the
\* tests on the line.  A body at the head of the pipe has no newline: the
\* line is the body and the header line behind it, read once that is there.
\* Such a line that starts with '{' is handed to from_str, which fails on the
\* trailing text; one that does not is skipped as a log line
FramedScan(r) ==
    /\ sreq[r].pc = "scan"
    /\ stdout # <<>>
    /\ LET line == Head(stdout)
       IN  IF line.k = "blank"
           THEN /\ stdout' = Tail(stdout)
                /\ UNCHANGED <<sreq, inner_owner, reader>>
           ELSE IF line.k = "length"
           THEN /\ stdout' = Tail(stdout)
                /\ reader' = [reader EXCEPT !.content_length = line.n]
                /\ sreq' = [sreq EXCEPT ![r].pc = "headers"]
                /\ UNCHANGED inner_owner
           ELSE /\ Len(stdout) >= 2
                /\ stdout' = Tail(Tail(stdout))
                /\ UNCHANGED reader
                /\ \/ /\ sreq' = [sreq EXCEPT ![r].pc = "returned", ![r].ret = "Err"]
                      /\ Release(r)
                   \/ /\ line.k = "body_tail"
                      /\ UNCHANGED <<sreq, inner_owner>>
    /\ UNCHANGED <<message_id, stdin, answered, issued>>
    /\ UNCHANGED <<resolver, tr, g>>
    /\ UNCHANGED <<loopVars, mcpVars, task_status>>

\* read_framed_json, "Read remaining headers until blank line": one pass
FramedHeaders(r) ==
    /\ sreq[r].pc = "headers"
    /\ stdout # <<>>
    /\ LET header == Head(stdout)
       IN  IF header.k = "blank"
           THEN /\ stdout' = Tail(stdout)
                /\ sreq' = [sreq EXCEPT ![r].pc = "body"]
                /\ UNCHANGED reader
           ELSE IF header.k = "length"
           THEN /\ stdout' = Tail(stdout)
                /\ reader' = [reader EXCEPT !.content_length = header.n]
                /\ UNCHANGED sreq
           ELSE /\ Len(stdout) >= 2
                /\ stdout' = Tail(Tail(stdout))
                /\ UNCHANGED <<sreq, reader>>
    /\ UNCHANGED <<message_id, inner_owner, stdin, answered, issued>>
    /\ UNCHANGED <<resolver, tr, g>>
    /\ UNCHANGED <<loopVars, mcpVars, task_status>>

\* read_framed_json: `stdout.read_exact(&mut buf).await?` and from_slice, then
\* the id test of send_request; bytes that are not one whole body do not parse
FramedBody(r) ==
    /\ sreq[r].pc = "body"
    /\ stdout # <<>>
    /\ stdout' = Tail(stdout)
    /\ IF Head(stdout) = Body(reader.content_length)
       THEN IF IdMatches(Response(Head(stdout).n), sreq[r].id)
            THEN /\ sreq' = [sreq EXCEPT ![r].pc = "returned", ![r].ret = "Ok",
                                         ![r].got = Response(Head(stdout).n)]
                 /\ Release(r)
            ELSE /\ sreq' = [sreq EXCEPT ![r].pc = "scan",
                                         ![r].discarded = Response(Head(stdout).n)]
                 /\ UNCHANGED inner_owner
       ELSE /\ sreq' = [sreq EXCEPT ![r].pc = "returned", ![r].ret = "Err"]
            /\ Release(r)
    /\ UNCHANGED <<message_id, stdin, answered, issued>>
    /\ UNCHANGED fnVars
    /\ UNCHANGED <<loopVars, mcpVars, task_status>>

\* execute_tool: tokio::time::timeout(60 s, ..) elapses and drops the
\* send_request future where it is suspended; its guard and its locals (the
\* line and header read so far, content_length) go with it, what it wrote and
\* what it took from the pipes stays written and taken
TimeoutDrop(r) ==
    /\ sreq[r].pc \in {"lock", "write_payload", "scan", "headers", "body"}
    /\ sreq' = [sreq EXCEPT ![r] = [IdleReq EXCEPT !.ret = "Dropped"]]
    /\ Release(r)
    /\ UNCHANGED <<message_id, stdin, stdout, answered, issued>>
    /\ UNCHANGED <<loopVars, mcpVars, fnVars, task_status>>

\* the same while read_exact had part of the body: the bytes in `buf` are
\* lost, the rest of the body reaches the pipe afterwards
TimeoutDropMidBody(r) ==
    /\ sreq[r].pc = "body"
    /\ stdout # <<>> /\ Head(stdout).k = "body"
    /\ stdout' = <<BodyTail(Head(stdout).n)>> \o Tail(stdout)
    /\ sreq' = [sreq EXCEPT ![r] = [IdleReq EXCEPT !.ret = "Dropped"]]
    /\ Release(r)
    /\ UNCHANGED <<message_id, stdin, answered, issued>>
    /\ UNCHANGED <<loopVars, mcpVars, fnVars, task_status>>

\* the child answers a request whose frame it could read, at any time and in
\* any order, with a correct frame: Content-Length, blank line, body
ChildAnswerFrame ==
    /\ Len(stdout) + 3 <= 3 * MaxBacklog
    /\ \E i \in 1..Len(stdin) :
          /\ WellFramed(i)
          /\ stdin[i].n \notin answered
          /\ stdout' = stdout \o <<LengthHeader(stdin[i].n), BlankLine,
                                   Body(stdin[i].n)>>
          /\ answered' = answered \cup {stdin[i].n}
    /\ UNCHANGED <<message_id, inner_owner, stdin, issued, sreq>>
    /\ UNCHANGED <<loopVars, mcpVars, fnVars, task_status>>

---------------------------------------------------------------------------
(* llm_client.rs: ProviderConfig::from_model *)

MaxWords == 2

\* the string literals of from_model and of its tests, and some other pieces
\* of model names, as character sequences
Lit ==
    [anthropic |-> <<"a", "n", "t", "h", "r", "o", "p", "i", "c", "/">>,
     openai |-> <<"o", "p", "e", "n", "a", "i", "/">>,
     meta_llama |-> <<"m", "e", "t", "a", "-", "l", "l", "a", "m", "a", "/">>,
     deepseek |-> <<"d", "e", "e", "p", "s", "e", "e", "k", "/">>,
     mistral |-> <<"m", "i", "s", "t", "r", "a", "l", "/">>,
     colon |-> <<":">>,
     claude |-> <<"c", "l", "a", "u", "d", "e">>,
     Claude |-> <<"C", "l", "a", "u", "d", "e">>,
     gpt5 |-> <<"g", "p", "t", "-", "5">>,
     gpt |-> <<"g", "p", "t">>,
     GPT |-> <<"G", "P", "T">>,
     gemini |-> <<"g", "e", "m", "i", "n", "i">>,
     minimax |-> <<"m", "i", "n", "i", "m", "a", "x">>,
     llama |-> <<"l", "l", "a", "m", "a", "3", ".", "3">>,
     mini |-> <<"-", "m", "i", "n", "i">>,
     sonnet |-> <<"c", "l", "a", "u", "d", "e", "-", "3", ".", "5", "-", "s", "o", "n", "n", "e", "t">>,
     latest |-> <<":", "l", "a", "t", "e", "s", "t">>]

\* model names: up to MaxWords pieces, concatenated
RECURSIVE Concat(_)
Concat(ws) == IF ws = <<>> THEN <<>> ELSE Head(ws) \o Concat(Tail(ws))

ModelNames ==
    {Concat(ws) : ws \in UNION {[1..k -> {Lit[f] : f \in DOMAIN Lit}] : k \in 0..MaxWords}}

\* str::to_lowercase, on the letters that occur
to_lowercase(s) ==
    [i \in DOMAIN s |->
        CASE s[i] = "C" -> "c" [] s[i] = "G" -> "g" [] s[i] = "P" -> "p"
          [] s[i] = "T" -> "t" [] OTHER -> s[i]]

\* str::contains
contains(s, w) ==
    \E i \in 0..(Len(s) - Len(w)) : SubSeq(s, i + 1, i + Len(w)) = w

\* ProviderConfig::from_preset: the id and the api_format of the presets
\* from_model names
from_preset(provider_id) ==
    [id |-> provider_id,
     api_format |->
        CASE provider_id = "anthropic" -> "Anthropic"
          [] provider_id = "openai" -> "OpenAI"
          [] provider_id = "google" -> "Google"
          [] provider_id = "minimax" -> "Minimax"
          [] OTHER -> "OpenAICompatible"]

\* ProviderConfig::from_preset_with_format
from_preset_with_format(provider_id, format) ==
    [from_preset(provider_id) EXCEPT !.api_format = format]

\* a slip: the ':' test is made before the prefix test
from_model_colon_first(model) ==
    LET model_lower == to_lowercase(model)
    IN  IF contains(model_lower, Lit.colon) THEN from_preset("ollama")
        ELSE IF \/ StartsWith(model_lower, Lit.anthropic)
                \/ StartsWith(model_lower, Lit.openai)
                \/ StartsWith(model_lower, Lit.meta_llama)
                \/ StartsWith(model_lower, Lit.deepseek)
        THEN from_preset("openrouter")
        ELSE IF contains(model_lower, Lit.claude) THEN from_preset("anthropic")
        ELSE IF contains(model_lower, Lit.gpt5)
        THEN from_preset_with_format("openai", "OpenAIResponses")
        ELSE IF contains(model_lower, Lit.gpt) THEN from_preset("openai")
        ELSE IF contains(model_lower, Lit.gemini) THEN from_preset("google")
        ELSE IF contains(model_lower, Lit.minimax) THEN from_preset("minimax")
        ELSE from_preset("anthropic")

\* ProviderConfig::from_model
from_model(model) ==
    LET model_lower == to_lowercase(model)
    IN  IF \/ StartsWith(model_lower, Lit.anthropic)
           \/ StartsWith(model_lower, Lit.openai)
           \/ StartsWith(model_lower, Lit.meta_llama)
           \/ StartsWith(model_lower, Lit.deepseek)
        THEN from_preset("openrouter")
        ELSE IF contains(model_lower, Lit.colon) THEN from_preset("ollama")
        ELSE IF contains(model_lower, Lit.claude) THEN from_preset("anthropic")
        ELSE IF StartsWith(model_lower, Lit.gpt5) \/ contains(model_lower, Lit.gpt5)
        THEN from_preset_with_format("openai", "OpenAIResponses")
        ELSE IF contains(model_lower, Lit.gpt) THEN from_preset("openai")
        ELSE IF contains(model_lower, Lit.gemini) THEN from_preset("google")
        ELSE IF contains(model_lower, Lit.minimax) THEN from_preset("minimax")
        ELSE from_preset("anthropic")

IdleResolver ==
    [pc |-> "idle", model |-> <<>>, config |-> [id |-> "", api_format |-> ""],
     ret |-> "None"]

\* AgentLoop::new: `ProviderConfig::from_model(&model)` for the model name of
\* the request
Resolve ==
    /\ resolver.pc = "given"
    /\ resolver' = [resolver EXCEPT !.pc = "resolved",
                                    !.config = from_model(resolver.model)]
    /\ UNCHANGED <<reader, tr, g>>
    /\ UNCHANGED <<loopVars, mcpVars, stdioVars, task_status>>

\* provider ids a request names: presets of from_preset and one it does not
\* list
ProviderIds ==
    {"anthropic", "openai", "google", "minimax", "ollama", "openrouter", "groq",
     "my-gateway"}

\* AgentLoop::new: `ProviderConfig::from_preset(pid)` when the request names
\* a provider
ResolvePreset ==
    /\ resolver.pc = "given_preset"
    /\ resolver' = [resolver EXCEPT !.pc = "resolved",
                                    !.config = from_preset(resolver.config.id)]
    /\ UNCHANGED <<reader, tr, g>>
    /\ UNCHANGED <<loopVars, mcpVars, stdioVars, task_status>>

\* AgentLoop::send_request: the `match self.provider_config.api_format`; the
\* value is the function it calls, or the error of the `_` arm
send_request(format) ==
    CASE format = "Anthropic" -> "send_anthropic_request"
      [] format \in {"OpenAI", "OpenAICompatible"} -> "send_openai_request"
      [] format = "Google" -> "send_google_request"
      [] OTHER -> "Unsupported API format"

\* the first turn of run_with_history on the resolved configuration:
\* `self.send_request(&request, &event_tx).await?`
Dispatch ==
    /\ resolver.pc = "resolved"
    /\ resolver' = [resolver EXCEPT !.pc = "sent",
                                    !.ret = send_request(resolver.config.api_format)]
    /\ UNCHANGED <<reader, tr, g>>
    /\ UNCHANGED <<loopVars, mcpVars, stdioVars, task_status>>

---------------------------------------------------------------------------
(* agent_loop.rs: a run against the Google API; thought signatures *)

MaxCalls == 3

\* `format!("fc_{}", Uuid::new_v4())`: the n-th identifier drawn
FcId(n) == <<"fc_", n>>

\* the parts a streamed candidate can carry: text, or a functionCall with or
\* without a thoughtSignature string
GoogleParts ==
    {[kind |-> "text", thoughtSignature |-> "absent"]} \cup
    {[kind |-> "functionCall", thoughtSignature |-> sig] :
        sig \in {"absent", "sigA", "sigB"}}

\* a slip: the signature is not copied into the ToolUse
parse_response_drops_signature(content) ==
    LET uses == SelectSeq(content, LAMBDA b : b.type = "tool_use")
    IN  [i \in 1..Len(uses) |->
            [id |-> uses[i].id, name |-> uses[i].name, thought_signature |-> <<>>]]

\* AgentLoop::parse_response, the tool uses: `thought_signature` is
\* `block.get("thought_signature").and_then(as_str).map(to_string)`
parse_response(content) ==
    LET uses == SelectSeq(content, LAMBDA b : b.type = "tool_use")
    IN  [i \in 1..Len(uses) |->
            [id |-> uses[i].id, name |-> uses[i].name,
             thought_signature |->
                IF uses[i].thought_signature = "absent" THEN <<>>
                ELSE <<uses[i].thought_signature>>]]

\* serde_json::to_value of a ContentBlock or a ToolResult: the tag becomes
\* "type", a None thought_signature is skipped
to_value(b) ==
    [type |-> b.type, id |-> b.id, name |-> b.name,
     thought_signature |->
        IF b.thought_signature = <<>> THEN "absent" ELSE b.thought_signature[1]]

\* MessageBuilder::convert_messages
convert_messages(msgs) ==
    [i \in 1..Len(msgs) |->
        [role |-> msgs[i].role, kind |-> msgs[i].kind,
         blocks |-> [j \in 1..Len(msgs[i].blocks) |-> to_value(msgs[i].blocks[j])]]]

\* AgentLoop::convert_to_google_format, the `contents` array: the map of
\* tool_use ids to signatures (a later insert replaces an earlier one), then
\* one entry per message that has parts
convert_to_google_format(api_messages) ==
    LET RECURSIVE Flat(_)
        Flat(ms) == IF ms = <<>> THEN <<>> ELSE Head(ms).blocks \o Flat(Tail(ms))
        all == Flat(api_messages)
        signed(id) == {i \in 1..Len(all) :
                          /\ all[i].type = "tool_use"
                          /\ all[i].id = id
                          /\ all[i].thought_signature # "absent"}
        thought_signatures(id) ==
            IF signed(id) = {} THEN "absent"
            ELSE all[CHOOSE i \in signed(id) : \A j \in signed(id) : j <= i]
                    .thought_signature
        part(b) ==
            CASE b.type = "text" ->
                    [kind |-> "text", name |-> <<>>, thoughtSignature |-> "absent"]
              [] b.type = "tool_use" ->
                    [kind |-> "functionCall", name |-> b.name,
                     thoughtSignature |-> b.thought_signature]
              [] b.type = "tool_result" ->
                    [kind |-> "functionResponse", name |-> b.id,
                     thoughtSignature |-> thought_signatures(b.id)]
        parts(m) ==
            IF m.kind = "Text"
            THEN <<[kind |-> "text", name |-> <<>>, thoughtSignature |-> "absent"]>>
            ELSE [j \in 1..Len(m.blocks) |-> part(m.blocks[j])]
        contents == [i \in 1..Len(api_messages) |->
                        [role |-> IF api_messages[i].role = "assistant"
                                  THEN "model" ELSE api_messages[i].role,
                         parts |-> parts(api_messages[i])]]
    IN  SelectSeq(contents, LAMBDA c : c.parts # <<>>)

\* before the run: no request was sent; `received` and `echoed` record the
\* function calls the server has sent and how many of them had been received
\* when the last request was built
IdleG ==
    [pc |-> "idle", messages |-> <<>>, accumulated_text |-> FALSE,
     tool_calls |-> <<>>, tool_uses |-> <<>>, next_id |-> 1, sent |-> 0,
     request |-> <<>>, received |-> <<>>, echoed |-> 0]

\* run_with_history: build_request, then send_google_request up to the
\* response stream
GoogleSend ==
    /\ g.pc = "build"
    /\ g' = [g EXCEPT !.pc = "stream", !.sent = g.sent + 1,
                      !.request = convert_to_google_format(convert_messages(g.messages)),
                      !.echoed = Len(g.received),
                      !.accumulated_text = FALSE, !.tool_calls = <<>>]
    /\ UNCHANGED <<reader, resolver, tr>>
    /\ UNCHANGED <<loopVars, mcpVars, stdioVars, task_status>>

\* handle_google_stream_response: one part of a candidate
GooglePart ==
    /\ g.pc = "stream"
    /\ \E part \in GoogleParts :
          IF part.kind = "text"
          THEN /\ ~g.accumulated_text
               /\ g' = [g EXCEPT !.accumulated_text = TRUE]
          ELSE /\ g.next_id <= MaxCalls
               /\ g' = [g EXCEPT
                     !.tool_calls = Append(@,
                         [type |-> "tool_use", id |-> FcId(g.next_id),
                          name |-> <<"read_file">>,
                          thought_signature |-> part.thoughtSignature]),
                     !.next_id = @ + 1,
                     !.received = Append(@,
                         [id |-> FcId(g.next_id), sig |-> part.thoughtSignature])]
    /\ UNCHANGED <<reader, resolver, tr>>
    /\ UNCHANGED <<loopVars, mcpVars, stdioVars, task_status>>

\* the stream ends: the Claude-format response is built and parsed, the
\* assistant message is pushed; without tool uses the run is done
GoogleStreamEnd ==
    /\ g.pc = "stream"
    /\ LET text == [type |-> "text", id |-> <<>>, name |-> <<>>,
                    thought_signature |-> "absent"]
           content == (IF g.accumulated_text THEN <<text>> ELSE <<>>) \o g.tool_calls
           uses == parse_response(content)
           blocks == (IF g.accumulated_text
                      THEN <<[type |-> "text", id |-> <<>>, name |-> <<>>,
                              thought_signature |-> <<>>]>>
                      ELSE <<>>) \o
                     [i \in 1..Len(uses) |->
                        [type |-> "tool_use", id |-> uses[i].id, name |-> uses[i].name,
                         thought_signature |-> uses[i].thought_signature]]
       IN  g' = [g EXCEPT
                 !.pc = IF uses = <<>> THEN "done" ELSE "tools",
                 !.tool_uses = uses,
                 !.messages = Append(@,
                     IF uses = <<>>
                     THEN [role |-> "assistant", kind |-> "Text", blocks |-> <<>>]
                     ELSE [role |-> "assistant", kind |-> "Blocks", blocks |-> blocks])]
    /\ UNCHANGED <<reader, resolver, tr>>
    /\ UNCHANGED <<loopVars, mcpVars, stdioVars, task_status>>

\* the tools are executed in order; ToolResult::success and ToolResult::error
\* carry the id of the tool use and no thought_signature; the results are
\* pushed as a user message
GoogleTools ==
    /\ g.pc = "tools"
    /\ g' = [g EXCEPT
             !.pc = "build", !.tool_uses = <<>>,
             !.messages = Append(@,
                 [role |-> "user", kind |-> "ToolResults",
                  blocks |-> [i \in 1..Len(g.tool_uses) |->
                                [type |-> "tool_result", id |-> g.tool_uses[i].id,
                                 name |-> <<>>, thought_signature |-> <<>>]]])]
    /\ UNCHANGED <<reader, resolver, tr>>
    /\ UNCHANGED <<loopVars, mcpVars, stdioVars, task_status>>

---------------------------------------------------------------------------
(* agent_loop.rs: the three SSE stream handlers, one `data: ` line at a time *)

MaxChunks == 4

\* one SSE line, by what the handler finds in it
SseLine(k, index, frag) == [k |-> k, index |-> index, frag |-> frag]

\* the lines a stream of each API can carry.  OpenAI: delta.content, a
\* tool_calls entry with id and function.name ("open"), one with
\* function.arguments only ("args"), a choice with finish_reason.  Anthropic:
\* text_delta, content_block_start of a tool_use, input_json_delta,
\* content_block_stop, message_stop.  Google: a text part, a functionCall
\* part.  "malformed" is a line that is not `data: ` + JSON.  The argument
\* fragments are `{"a":` and `1}`.
StreamLines(parser) ==
    {SseLine("malformed", 0, "")} \cup
    CASE parser = "OpenAI" ->
            {SseLine("text", 0, "x"), SseLine("finish", 0, "")}
            \cup {SseLine("open", i, "") : i \in {0, 1}}
            \cup {SseLine("args", i, f) : i \in {0, 1}, f \in {"{a:", "1}"}}
      [] parser = "Anthropic" ->
            {SseLine("text_delta", 0, "x"), SseLine("tool_start", 0, ""),
             SseLine("block_stop", 0, ""), SseLine("message_stop", 0, "")}
            \cup {SseLine("json_delta", 0, f) : f \in {"{a:", "1}"}}
      [] parser = "Google" ->
            {SseLine("text", 0, "x"), SseLine("call", 0, "")}

\* serde_json::from_str on the accumulated fragments: Some(value) when their
\* concatenation is a JSON text
from_str(args) == IF args = <<"{a:", "1}">> THEN <<"{a:1}">> ELSE <<>>

\* a slip: a failed parse yields null
from_str_unwrap_or_null(args) ==
    IF from_str(args) = <<>> THEN "null" ELSE from_str(args)[1]

\* `serde_json::from_str(args).unwrap_or(json!({}))`
from_str_unwrap_or_empty(args) ==
    IF from_str(args) = <<>> THEN "{}" ELSE from_str(args)[1]

\* the tool_use block the handlers push
ToolUseJson(id, name, input) ==
    [type |-> "tool_use", id |-> id, name |-> name, input |-> input]

\* "Build Claude format response": the text block when text was
\* accumulated, then the tool uses
ClaudeContent(accumulated_text, tool_calls) ==
    (IF accumulated_text # <<>>
     THEN <<[type |-> "text", id |-> <<>>, name |-> <<>>, input |-> ""]>>
     ELSE <<>>) \o tool_calls

\* the locals of a handler before the first chunk; `log` records the lines
\* read
IdleTr ==
    [parser |-> "none", pc |-> "idle", log |-> <<>>, accumulated_text |-> <<>>,
     tool_calls |-> <<>>,
     current_tool_calls |->
        [i \in {0, 1} |-> [present |-> FALSE, id |-> <<>>, name |-> <<>>, args |-> <<>>]],
     current_tool_id |-> <<>>, current_tool_name |-> <<>>,
     current_tool_input |-> <<>>, started |-> 0, full_response |-> <<>>,
     ret |-> [tag |-> "None", content |-> <<>>, error |-> ""]]

\* handle_openai_stream_response on one line.  On finish_reason the map's
\* values() are visited in the order the HashMap yields them, which is any
\* order of the keys present
OpenAILine ==
    /\ tr.parser = "OpenAI" /\ tr.pc = "stream"
    /\ Len(tr.log) < MaxChunks
    /\ \E line \in StreamLines("OpenAI"), values \in {<<0, 1>>, <<1, 0>>} :
          LET i == line.index
              slot == tr.current_tool_calls[i]
              read == [tr EXCEPT !.log = Append(@, line)]
              order == SelectSeq(values, LAMBDA k : tr.current_tool_calls[k].present)
              named == SelectSeq(order, LAMBDA k :
                           /\ tr.current_tool_calls[k].id # <<>>
                           /\ tr.current_tool_calls[k].name # <<>>)
          IN  tr' =
                CASE line.k = "text" ->
                        [read EXCEPT !.accumulated_text = Append(@, line.frag)]
                  [] line.k = "open" ->
                        [read EXCEPT !.current_tool_calls[i] =
                            [slot EXCEPT !.present = TRUE, !.id = <<"call", i>>,
                                         !.name = <<"read_file">>]]
                  [] line.k = "args" ->
                        [read EXCEPT !.current_tool_calls[i] =
                            [slot EXCEPT !.present = TRUE,
                                         !.args = Append(@, line.frag)]]
                  [] line.k = "finish" ->
                        [read EXCEPT !.tool_calls = @ \o
                            [j \in 1..Len(named) |->
                                ToolUseJson(tr.current_tool_calls[named[j]].id,
                                    tr.current_tool_calls[named[j]].name,
                                    from_str_unwrap_or_empty(
                                        tr.current_tool_calls[named[j]].args))]]
                  [] OTHER -> read
    /\ UNCHANGED <<reader, resolver, g>>
    /\ UNCHANGED <<loopVars, mcpVars, stdioVars, task_status>>

\* handle_stream_response (Anthropic) on one line
AnthropicLine ==
    /\ tr.parser = "Anthropic" /\ tr.pc = "stream"
    /\ Len(tr.log) < MaxChunks
    /\ \E line \in StreamLines("Anthropic") :
          LET read == [tr EXCEPT !.log = Append(@, line)]
          IN  tr' =
                CASE line.k = "tool_start" ->
                        [read EXCEPT !.current_tool_id = <<"toolu", tr.started + 1>>,
                                     !.current_tool_name = <<"read_file">>,
                                     !.current_tool_input = <<>>,
                                     !.started = @ + 1]
                  [] line.k = "text_delta" ->
                        [read EXCEPT !.accumulated_text = Append(@, line.frag)]
                  [] line.k = "json_delta" ->
                        [read EXCEPT !.current_tool_input = Append(@, line.frag)]
                  [] line.k = "block_stop" ->
                        IF tr.current_tool_id # <<>>
                        THEN [read EXCEPT
                                !.tool_calls = Append(@,
                                    ToolUseJson(tr.current_tool_id, tr.current_tool_name,
                                        from_str_unwrap_or_empty(tr.current_tool_input))),
                                !.current_tool_id = <<>>,
                                !.current_tool_name = <<>>,
                                !.current_tool_input = <<>>]
                        ELSE read
                  [] line.k = "message_stop" ->
                        [read EXCEPT !.full_response =
                            <<ClaudeContent(tr.accumulated_text, tr.tool_calls)>>]
                  [] OTHER -> read
    /\ UNCHANGED <<reader, resolver, g>>
    /\ UNCHANGED <<loopVars, mcpVars, stdioVars, task_status>>

\* handle_google_stream_response on one line
GoogleLine ==
    /\ tr.parser = "Google" /\ tr.pc = "stream"
    /\ Len(tr.log) < MaxChunks
    /\ \E line \in StreamLines("Google") :
          LET read == [tr EXCEPT !.log = Append(@, line)]
          IN  tr' =
                CASE line.k = "text" ->
                        [read EXCEPT !.accumulated_text = Append(@, line.frag)]
                  [] line.k = "call" ->
                        [read EXCEPT !.tool_calls = Append(@,
                                        ToolUseJson(FcId(tr.started + 1),
                                                    <<"read_file">>, "{}")),
                                     !.started = @ + 1]
                  [] OTHER -> read
    /\ UNCHANGED <<reader, resolver, g>>
    /\ UNCHANGED <<loopVars, mcpVars, stdioVars, task_status>>

\* `stream.next()` returns None: the value each handler returns
EndOfStream ==
    /\ tr.pc = "stream"
    /\ tr' = [tr EXCEPT
          !.pc = "returned",
          !.ret =
             IF tr.parser = "Anthropic"
             THEN IF tr.full_response = <<>>
                  THEN [tag |-> "Err", content |-> <<>>,
                        error |-> "No response received"]
                  ELSE [tag |-> "Ok", content |-> tr.full_response[1], error |-> ""]
             ELSE [tag |-> "Ok",
                   content |-> ClaudeContent(tr.accumulated_text, tr.tool_calls),
                   error |-> ""]]
    /\ UNCHANGED <<reader, resolver, g>>
    /\ UNCHANGED <<loopVars, mcpVars, stdioVars, task_status>>

\* `chunk.map_err(..)?`: the byte stream yields an error
ChunkError ==
    /\ tr.pc = "stream"
    /\ tr' = [tr EXCEPT !.pc = "returned",
                        !.ret = [tag |-> "Err", content |-> <<>>,
                                 error |-> "Stream error"]]
    /\ UNCHANGED <<reader, resolver, g>>
    /\ UNCHANGED <<loopVars, mcpVars, stdioVars, task_status>>

---------------------------------------------------------------------------
(* No reader, resolver or stream handler is running *)

NoCalls ==
    /\ reader = IdleReader
    /\ resolver = IdleResolver
    /\ tr = IdleTr
    /\ g = IdleG

---------------------------------------------------------------------------
(* The event channel: tokio::sync::mpsc::channel::<AgentEvent>(capacity) *)

\* Sender::send(e).await for the head of the outbox.  A closed channel makes
\* send return Err, which `let _ =` discards; a channel with room takes the
\* event; a full channel suspends the sender until the receiver frees a slot.
Send ==
    /\ outbox # <<>>
    /\ IF ~rxOpen
       THEN /\ outbox' = Tail(outbox)
            /\ emitted' = Append(emitted, Head(outbox))
            /\ parked' = FALSE
            /\ chan' = chan
       ELSE IF Len(chan) < ChanCap
       THEN /\ outbox' = Tail(outbox)
            /\ emitted' = Append(emitted, Head(outbox))
            /\ parked' = FALSE
            /\ chan' = Append(chan, Head(outbox))
       ELSE /\ ~parked
            /\ parked' = TRUE
            /\ UNCHANGED <<outbox, emitted, chan>>
    /\ UNCHANGED <<api_format, max_turns, history0, messages, turn, pc, deltas,
                   accumulated, text_content, tool_uses, toolIdx, curResult,
                   tool_results, rxOpen, requests, toolCalls, handlerLog, result>>
    /\ UNCHANGED <<mcpVars, stdioVars, fnVars, task_status>>

\* the emitter task: `while let Some(event) = rx.recv().await { .. }`
Recv ==
    /\ rxOpen
    /\ chan # <<>>
    /\ chan' = Tail(chan)
    /\ UNCHANGED <<api_format, max_turns, history0, messages, turn, pc, deltas,
                   accumulated, text_content, tool_uses, toolIdx, curResult,
                   tool_results, outbox, parked, rxOpen, emitted, requests,
                   toolCalls, handlerLog, result>>
    /\ UNCHANGED <<mcpVars, stdioVars, fnVars, task_status>>

\* the Receiver is dropped (the emitter task ended); buffered events are lost
RxClose ==
    /\ rxOpen
    /\ rxOpen' = FALSE
    /\ chan' = <<>>
    /\ UNCHANGED <<api_format, max_turns, history0, messages, turn, pc, deltas,
                   accumulated, text_content, tool_uses, toolIdx, curResult,
                   tool_results, outbox, parked, emitted, requests, toolCalls, handlerLog,
                   result>>
    /\ UNCHANGED <<mcpVars, stdioVars, fnVars, task_status>>

\* run_task_agent, the emitter task: `while let Some(event) = rx.recv().await`
\* with its match on the event: Done writes "completed", Error writes "failed"
EmitterRecv ==
    /\ rxOpen
    /\ chan # <<>>
    /\ chan' = Tail(chan)
    /\ task_status' = CASE Head(chan).type = "done" -> "completed"
                        [] Head(chan).type = "error" -> "failed"
                        [] OTHER -> task_status
    /\ UNCHANGED <<api_format, max_turns, history0, messages, turn, pc, deltas,
                   accumulated, text_content, tool_uses, toolIdx, curResult,
                   tool_results, outbox, parked, rxOpen, emitted, requests,
                   toolCalls, handlerLog, result>>
    /\ UNCHANGED <<mcpVars, stdioVars, fnVars>>

\* run_task_agent, `match result`: Ok writes "completed", Err writes "failed"
FinalStatus(res) == IF res.tag = "Ok" THEN "completed" ELSE "failed"

\* run_task_agent after run_with_history returned: `emit_task.await` (the
\* Sender is gone, so the emitter ends once the channel is drained), then the
\* final status is written and the command returns
TaskReturn ==
    /\ pc = "returned"
    /\ chan = <<>>
    /\ pc' = "task_returned"
    /\ task_status' = FinalStatus(result)
    /\ UNCHANGED <<api_format, max_turns, history0, messages, turn, deltas,
                   accumulated, text_content, tool_uses, toolIdx, curResult,
                   tool_results, outbox, parked, chan, rxOpen, emitted, requests,
                   toolCalls, handlerLog, result>>
    /\ UNCHANGED <<mcpVars, stdioVars, fnVars>>

---------------------------------------------------------------------------
(* AgentLoop::run_with_history *)

\* a slip: the bound is tested off by one
TurnLimitReached_off_by_one(t, m) == t > m + 1

\* `if turn > self.config.max_turns`
TurnLimitReached(t, m) == t > m

\* a slip: the new message replaces the last one
PushMessage_overwrite(msgs, m) ==
    IF msgs = <<>> THEN <<m>> ELSE [msgs EXCEPT ![Len(msgs)] = m]

\* messages.push(..)
PushMessage(msgs, m) == Append(msgs, m)

\* the assistant message of a turn
AssistantMessage(text, tus) ==
    IF tus = <<>>
    THEN TextMessage("assistant", text)
    ELSE [role |-> "assistant", kind |-> "Blocks",
          content |-> (IF text # <<>> THEN <<TextBlock(text)>> ELSE <<>>)
                      \o [i \in 1..Len(tus) |-> ToolUseBlock(tus[i])]]

\* the user message carrying the tool results of a turn
ToolResultsMessage(results) ==
    [role |-> "user", kind |-> "ToolResults", content |-> results]

\* a slip: no ToolEnd for a failed tool
ToolEndEvents_skip_failed(tu, r) ==
    IF r.is_error = "None" THEN <<EvToolEnd(tu, r)>> ELSE <<>>

\* "Emit tool end"
ToolEndEvents(tu, r) == <<EvToolEnd(tu, r)>>

\* a slip: only successful results are collected
CollectResult_skip_failed(results, r) ==
    IF r.is_error = "None" THEN Append(results, r) ELSE results

\* tool_results.push(result)
CollectResult(results, r) == Append(results, r)

\* `return Err(e)` / the `?` operator: the future completes with the error
ReturnErr(e) ==
    /\ pc' = "returned"
    /\ result' = [tag |-> "Err", error |-> e]

\* top of `loop`: turn += 1 and the max_turns test
TurnStart ==
    /\ pc = "loop_top"
    /\ outbox = <<>>
    /\ turn' = turn + 1
    /\ IF TurnLimitReached(turn', max_turns)
       THEN /\ outbox' = <<EvError(<<"Reached maximum turns", max_turns>>)>>
            /\ pc' = "break"
       ELSE /\ outbox' = outbox
            /\ pc' = "request"
    /\ UNCHANGED <<api_format, max_turns, history0, messages, deltas,
                   accumulated, text_content, tool_uses, toolIdx, curResult,
                   tool_results, parked, chan, rxOpen, emitted, requests,
                   toolCalls, handlerLog, result>>
    /\ UNCHANGED <<mcpVars, stdioVars, fnVars, task_status>>

\* build_request and send_request up to the response status
SendRequest ==
    /\ pc = "request"
    /\ requests' = requests + 1
    /\ \/ /\ api_format \notin SupportedFormats
          /\ ReturnErr("Unsupported API format")
          /\ UNCHANGED <<deltas, accumulated, tool_uses>>
       \/ /\ api_format \in SupportedFormats
          /\ \E e \in {"HTTP error", "API error"} : ReturnErr(e)
          /\ UNCHANGED <<deltas, accumulated, tool_uses>>
       \/ /\ api_format \in SupportedFormats
          /\ \E r \in Responses :
                /\ deltas' = r.deltas
                /\ tool_uses' = r.tools
          /\ accumulated' = <<>>
          /\ pc' = "stream"
          /\ result' = result
    /\ UNCHANGED <<api_format, max_turns, history0, messages, turn,
                   text_content, toolIdx, curResult, tool_results, outbox,
                   parked, chan, rxOpen, emitted, toolCalls, handlerLog>>
    /\ UNCHANGED <<mcpVars, stdioVars, fnVars, task_status>>

\* a slip: the event carries the delta instead of the text so far
TextProgress_delta_only(acc, delta) == EvText(delta)

\* `accumulated_text.push_str(text)` and
\* `AgentEvent::Text { content: accumulated_text.clone() }`
TextProgress(acc, delta) == EvText(acc \o delta)

\* the stream handlers: one text delta is appended and the cumulative text sent
StreamDelta ==
    /\ pc = "stream"
    /\ outbox = <<>>
    /\ deltas # <<>>
    /\ accumulated' = accumulated \o Head(deltas)
    /\ deltas' = Tail(deltas)
    /\ outbox' = <<TextProgress(accumulated, Head(deltas))>>
    /\ UNCHANGED <<api_format, max_turns, history0, messages, turn, pc,
                   text_content, tool_uses, toolIdx, curResult, tool_results,
                   parked, chan, rxOpen, emitted, requests, toolCalls, handlerLog, result>>
    /\ UNCHANGED <<mcpVars, stdioVars, fnVars, task_status>>

\* the stream handlers: reading a chunk fails
StreamError ==
    /\ pc = "stream"
    /\ outbox = <<>>
    /\ ReturnErr("Stream error")
    /\ UNCHANGED <<api_format, max_turns, history0, messages, turn, deltas,
                   accumulated, text_content, tool_uses, toolIdx, curResult,
                   tool_results, outbox, parked, chan, rxOpen, emitted,
                   requests, toolCalls, handlerLog>>
    /\ UNCHANGED <<mcpVars, stdioVars, fnVars, task_status>>

\* end of the stream, parse_response, and the events of the parsed text
StreamEnd ==
    /\ pc = "stream"
    /\ outbox = <<>>
    /\ deltas = <<>>
    /\ \/ /\ api_format = "Anthropic"      \* the stream ended without message_stop
          /\ ReturnErr("No response received")
          /\ UNCHANGED <<text_content, outbox>>
       \/ /\ text_content' = accumulated
          /\ outbox' = ParsedEvents(text_content')
          /\ pc' = "push_assistant"
          /\ result' = result
    /\ UNCHANGED <<api_format, max_turns, history0, messages, turn, deltas,
                   accumulated, tool_uses, toolIdx, curResult, tool_results,
                   parked, chan, rxOpen, emitted, requests, toolCalls, handlerLog>>
    /\ UNCHANGED <<mcpVars, stdioVars, fnVars, task_status>>

\* "Add assistant message" and "If no tool uses, we're done"
PushAssistant ==
    /\ pc = "push_assistant"
    /\ outbox = <<>>
    /\ messages' = PushMessage(messages, AssistantMessage(text_content, tool_uses))
    /\ IF tool_uses = <<>>
       THEN /\ outbox' = <<EvDone(turn)>>
            /\ pc' = "break"
            /\ UNCHANGED <<toolIdx, tool_results>>
       ELSE /\ tool_results' = <<>>
            /\ toolIdx' = 1
            /\ outbox' = <<EvToolStart(tool_uses[1])>>
            /\ pc' = "tool_exec"
    /\ UNCHANGED <<api_format, max_turns, history0, turn, deltas, accumulated,
                   text_content, tool_uses, curResult, parked, chan, rxOpen,
                   emitted, requests, toolCalls, handlerLog, result>>
    /\ UNCHANGED <<mcpVars, stdioVars, fnVars, task_status>>

\* self.tool_executor.execute(tool_use).await, then "Emit tool end"
ExecuteTool ==
    /\ pc = "tool_exec"
    /\ outbox = <<>>
    /\ \E o \in Outcomes(tool_uses[toolIdx]) :
          /\ curResult' = execute(tool_uses[toolIdx], o)
          /\ handlerLog' = Append(handlerLog, o)
    /\ toolCalls' = toolCalls + 1
    /\ outbox' = ToolEndEvents(tool_uses[toolIdx], curResult')
    /\ pc' = "tool_push"
    /\ UNCHANGED <<api_format, max_turns, history0, messages, turn, deltas,
                   accumulated, text_content, tool_uses, toolIdx, tool_results,
                   parked, chan, rxOpen, emitted, requests, result>>
    /\ UNCHANGED <<mcpVars, stdioVars, fnVars, task_status>>

\* tool_results.push(result); the next tool use, or the tool-results message
\* and "Emit turn complete"
NextTool ==
    /\ pc = "tool_push"
    /\ outbox = <<>>
    /\ tool_results' = CollectResult(tool_results, curResult)
    /\ IF toolIdx < Len(tool_uses)
       THEN /\ toolIdx' = toolIdx + 1
            /\ outbox' = <<EvToolStart(tool_uses[toolIdx'])>>
            /\ pc' = "tool_exec"
            /\ messages' = messages
       ELSE /\ messages' = PushMessage(messages, ToolResultsMessage(tool_results'))
            /\ outbox' = <<EvTurnComplete(turn)>>
            /\ pc' = "loop_top"
            /\ toolIdx' = toolIdx
    /\ UNCHANGED <<api_format, max_turns, history0, turn, deltas, accumulated,
                   text_content, tool_uses, curResult, parked, chan, rxOpen,
                   emitted, requests, toolCalls, handlerLog, result>>
    /\ UNCHANGED <<mcpVars, stdioVars, fnVars, task_status>>

\* `break` .. `Ok(messages)`
ReturnOk ==
    /\ pc = "break"
    /\ outbox = <<>>
    /\ pc' = "returned"
    /\ result' = [tag |-> "Ok", messages |-> messages]
    /\ UNCHANGED <<api_format, max_turns, history0, messages, turn, deltas,
                   accumulated, text_content, tool_uses, toolIdx, curResult,
                   tool_results, outbox, parked, chan, rxOpen, emitted,
                   requests, toolCalls, handlerLog>>
    /\ UNCHANGED <<mcpVars, stdioVars, fnVars, task_status>>

NoResult == [tag |-> "Running"]
NoToolResult == [tool_use_id |-> "", content |-> <<>>, is_error |-> "None"]

\* run_with_history is called: a configured loop, a caller's history, a fresh channel
Init ==
    /\ task_status = "running"
    /\ api_format \in ApiFormats
    /\ max_turns \in 0..MaxTurns
    /\ history0 \in StartHistories
    /\ messages = history0
    /\ turn = 0
    /\ pc = "loop_top"
    /\ deltas = <<>>
    /\ accumulated = <<>>
    /\ text_content = <<>>
    /\ tool_uses = <<>>
    /\ toolIdx = 0
    /\ curResult = NoToolResult
    /\ tool_results = <<>>
    /\ outbox = <<>>
    /\ parked = FALSE
    /\ chan = <<>>
    /\ rxOpen = TRUE
    /\ emitted = <<>>
    /\ requests = 0
    /\ toolCalls = 0
    /\ handlerLog = <<>>
    /\ result = NoResult
    /\ LoopMcpState
    /\ NewStdioClient
    /\ NoCalls

Next ==
    \/ TurnStart
    \/ SendRequest
    \/ StreamDelta
    \/ StreamError
    \/ StreamEnd
    \/ PushAssistant
    \/ ExecuteTool
    \/ NextTool
    \/ ReturnOk
    \/ Send
    \/ Recv
    \/ RxClose

Spec == Init /\ [][Next]_vars

\* run_task_agent around the run: the emitter task keeps the Receiver until
\* the channel is closed and drained
NextTask ==
    \/ TurnStart
    \/ SendRequest
    \/ StreamDelta
    \/ StreamError
    \/ StreamEnd
    \/ PushAssistant
    \/ ExecuteTool
    \/ NextTool
    \/ ReturnOk
    \/ Send
    \/ EmitterRecv
    \/ TaskReturn

SpecTask == Init /\ [][NextTask]_vars

---------------------------------------------------------------------------
(* One turn over an arbitrary assistant text: the provider streams `text`   *)
(* in one delta and requests no tool.                                       *)

MarkerTokens ==
    {Chr, Start(1), Start(2), Done(1), Done(2), PlanOpen, PlanClose, Line(1)}

\* texts with several <plan> blocks and step markers around them
LongTexts ==
    { <<PlanOpen, Line(1), Line(2), PlanClose, Start(1), PlanOpen, Line(1),
        PlanClose, Done(1)>>,
      <<Start(1), PlanOpen, PlanClose, PlanOpen, Line(2), PlanClose, Done(1),
        Start(2), Done(2)>>,
      <<PlanOpen, Start(2), Line(1), PlanClose, PlanOpen, Line(1), PlanClose>>,
      <<PlanOpen, Line(2), Line(1), PlanClose>> }

MarkerTexts ==
    UNION {[1..k -> MarkerTokens] : k \in 0..MaxTextLen} \cup LongTexts

\* the run is in its first turn, the request was sent, the stream is open
InitMarkers ==
    /\ task_status = "running"
    /\ api_format = "Anthropic"
    /\ max_turns = 1
    /\ history0 = << TextMessage("user", <<Chr>>) >>
    /\ messages = history0
    /\ turn = 1
    /\ pc = "stream"
    /\ \E text \in MarkerTexts : deltas = IF text = <<>> THEN <<>> ELSE <<text>>
    /\ accumulated = <<>>
    /\ text_content = <<>>
    /\ tool_uses = <<>>
    /\ toolIdx = 0
    /\ curResult = NoToolResult
    /\ tool_results = <<>>
    /\ outbox = <<>>
    /\ parked = FALSE
    /\ chan = <<>>
    /\ rxOpen = TRUE
    /\ emitted = <<>>
    /\ requests = 1
    /\ toolCalls = 0
    /\ handlerLog = <<>>
    /\ result = NoResult
    /\ LoopMcpState
    /\ NewStdioClient
    /\ NoCalls

NextMarkers ==
    \/ StreamDelta
    \/ StreamError
    \/ StreamEnd
    \/ PushAssistant
    \/ ReturnOk
    \/ Send
    \/ Recv
    \/ RxClose

SpecMarkers == InitMarkers /\ [][NextMarkers]_vars

---------------------------------------------------------------------------
(* The MCP manager under commands and tool calls.  The commands run one    *)
(* after the other; the tool calls of an agent run concurrently with them. *)

\* no agent run is in progress
NoRun ==
    /\ task_status = "none"
    /\ api_format = "Anthropic"
    /\ max_turns = 0
    /\ history0 = <<>>
    /\ messages = <<>>
    /\ turn = 0
    /\ pc = "none"
    /\ deltas = <<>>
    /\ accumulated = <<>>
    /\ text_content = <<>>
    /\ tool_uses = <<>>
    /\ toolIdx = 0
    /\ curResult = NoToolResult
    /\ tool_results = <<>>
    /\ outbox = <<>>
    /\ parked = FALSE
    /\ chan = <<>>
    /\ rxOpen = TRUE
    /\ emitted = <<>>
    /\ requests = 0
    /\ toolCalls = 0
    /\ handlerLog = <<>>
    /\ result = NoResult

InitMcp == NoRun /\ NewManager /\ NewStdioClient /\ NoCalls

NextMcp ==
    \/ \E t \in CommandTasks :
          \/ \E id \in ServerIds : ConnectCommand(t, id)
          \/ HttpSpawn(t)
          \/ HttpOAuth(t)
          \/ HttpInitAttempt(t)
          \/ HttpInitTimeout(t)
          \/ StdioAttempt(t)
          \/ DiscoverTools(t)
          \/ InsertClient(t)
          \/ Publish(t)
          \/ ConnectReturn(t)
          \/ \E id \in ServerIds : DisconnectCommand(t, id)
          \/ RemoveClient(t)
          \/ StopAndMark(t)
          \/ DisconnectReturn(t)
    \/ \E t \in ToolTasks :
          \/ ExecuteStart(t)
          \/ ExecuteTransport(t)
          \/ ExecuteReturn(t)

SpecMcp == InitMcp /\ [][NextMcp]_vars

\* the steps of a running command that the manager takes by itself: each is
\* bounded by the code (a lock that is free, a spawn, the timeout around
\* initialize, the retry window of the HTTP initialize)
ManagerStep(t) ==
    \/ HttpSpawn(t)
    \/ HttpOAuth(t)
    \/ HttpInitAttempt(t)
    \/ HttpInitTimeout(t)
    \/ StdioAttempt(t)
    \/ HttpDiscoverTools(t)
    \/ StdioListToolsWrite(t)
    \/ InsertClient(t)
    \/ Publish(t)
    \/ ConnectReturn(t)
    \/ RemoveClient(t)
    \/ StopAndMark(t)
    \/ DisconnectReturn(t)

\* the manager's commands with the stdio child as a process of its own: the
\* commands are the user's to issue and the tools/list answer is the child's
\* to give
NextLive ==
    \E t \in CommandTasks :
        \/ \E id \in ServerIds : ConnectCommand(t, id)
        \/ \E id \in ServerIds : DisconnectCommand(t, id)
        \/ ManagerStep(t)
        \/ StdioListToolsRead(t)

\* the tokio runtime runs every task that is ready, so a manager step that
\* stays enabled is taken; nothing obliges the user to issue a command or the
\* child to write
SpecLive ==
    /\ InitMcp
    /\ [][NextLive]_vars
    /\ \A t \in CommandTasks : WF_vars(ManagerStep(t))

\* the manager's commands when the caller may drop a connect it is awaiting
NextDrop ==
    \/ NextMcp
    \/ \E t \in CommandTasks : DropConnect(t)

SpecDrop == InitMcp /\ [][NextDrop]_vars

\* connect and disconnect commands for the first server issued from two
\* tasks with no ordering between them (two commands, or a command and the
\* auto-connect thread)
NextRace ==
    \E t \in Tasks :
        \/ ConnectStart(t, Srv1)
        \/ SidecarSpawn(t)
        \/ SidecarRegister(t)
        \/ HttpOAuth(t)
        \/ HttpInitAttempt(t)
        \/ HttpInitTimeout(t)
        \/ DiscoverTools(t)
        \/ InsertClient(t)
        \/ Publish(t)
        \/ ConnectReturn(t)
        \/ DisconnectStart(t, Srv1)
        \/ RemoveClient(t)
        \/ StopAndMark(t)
        \/ DisconnectReturn(t)

SpecRace == InitMcp /\ [][NextRace]_vars

---------------------------------------------------------------------------
(* One connect of an HTTP server with the default startup timeout whose    *)
(* initialize begins to succeed 19.9 s after the connect started           *)

\* the server is reached by its URL alone (no launch command, no OAuth
\* credentials), so the retry loop starts when the connect starts; the
\* Connecting entry is in, initialize_http_with_retry begins
InitRetry ==
    /\ NoRun
    /\ NewStdioClient
    /\ NoCalls
    /\ clients = [id \in ServerIds |-> NoClient]
    /\ server_status = [id \in ServerIds |->
                           IF id = Srv1 THEN ConnectingStatus ELSE NoStatus]
    /\ managed_processes = [id \in ServerIds |-> 0]
    /\ clients_readers = {}
    /\ procs = {}
    /\ next_pid = 1
    /\ hash_order = <<Srv1, Srv2>>
    /\ db = [McpConfigs EXCEPT ![Srv1].startup_timeout_ms = None,
                               ![Srv1].launch_command = None,
                               ![Srv1].oauth = FALSE]
    /\ cmd_history = [id \in ServerIds |-> "none"]
    /\ task = [t \in Tasks |->
                  IF t = "t1"
                  THEN [IdleTask EXCEPT !.pc = "http_init", !.op = "connect",
                                        !.id = Srv1, !.config = db[Srv1],
                                        !.ready_at = 19900]
                  ELSE IdleTask]

NextRetry ==
    \E t \in CommandTasks :
        \/ HttpInitAttempt(t)
        \/ HttpInitTimeout(t)
        \/ DiscoverTools(t)
        \/ InsertClient(t)
        \/ Publish(t)
        \/ ConnectReturn(t)

SpecRetry == InitRetry /\ [][NextRetry]_vars

---------------------------------------------------------------------------
(* One stdio client used by several callers                                *)

InitStdio == NoRun /\ LoopMcpState /\ NewStdioClient /\ NoCalls

NextStdio ==
    \/ \E r \in Requesters :
          \/ ReqStart(r)
          \/ ReqWrite(r)
          \/ ReqRead(r)
          \/ ReqReadFailed(r)
          \/ ReqReturn(r)
    \/ ChildAnswer
    \/ ChildEmit

SpecStdio == InitStdio /\ [][NextStdio]_vars

\* tool calls on one Framed stdio client, each under the timeout
NextCancel ==
    \/ \E r \in Requesters :
          \/ ReqStart(r)
          \/ WriteHeader(r)
          \/ WritePayload(r)
          \/ FramedScan(r)
          \/ FramedHeaders(r)
          \/ FramedBody(r)
          \/ TimeoutDrop(r)
          \/ TimeoutDropMidBody(r)
          \/ ReqReturn(r)
    \/ ChildAnswerFrame

SpecCancel == InitStdio /\ [][NextCancel]_vars

---------------------------------------------------------------------------
(* read_framed_json over every output of at most MaxLines lines            *)

InitReader ==
    /\ NoRun /\ LoopMcpState /\ NewStdioClient
    /\ \E text \in StdoutTexts :
          reader = [IdleReader EXCEPT !.pc = "scan", !.input = text, !.all = text]
    /\ resolver = IdleResolver
    /\ tr = IdleTr
    /\ g = IdleG

NextReader == ScanLine \/ ReadHeader \/ ReadBody

SpecReader == InitReader /\ [][NextReader]_vars

\* from_model on each model name
InitResolver ==
    /\ NoRun /\ LoopMcpState /\ NewStdioClient
    /\ reader = IdleReader
    /\ \E model \in ModelNames :
          resolver = [IdleResolver EXCEPT !.pc = "given", !.model = model]
    /\ tr = IdleTr
    /\ g = IdleG

SpecResolver == InitResolver /\ [][Resolve]_vars

\* an agent loop built for a provider id or for a model name, and its first
\* request
InitDispatch ==
    /\ NoRun /\ LoopMcpState /\ NewStdioClient
    /\ reader = IdleReader
    /\ \/ \E model \in ModelNames :
             resolver = [IdleResolver EXCEPT !.pc = "given", !.model = model]
       \/ \E pid \in ProviderIds :
             resolver = [IdleResolver EXCEPT !.pc = "given_preset",
                                             !.config.id = pid]
    /\ tr = IdleTr
    /\ g = IdleG

NextDispatch == Resolve \/ ResolvePreset \/ Dispatch

SpecDispatch == InitDispatch /\ [][NextDispatch]_vars

\* a run against the Google API that starts from one user message
InitGoogle ==
    /\ NoRun /\ LoopMcpState /\ NewStdioClient
    /\ reader = IdleReader
    /\ resolver = IdleResolver
    /\ tr = IdleTr
    /\ g = [IdleG EXCEPT !.pc = "build",
                         !.messages = <<[role |-> "user", kind |-> "Text",
                                         blocks |-> <<>>]>>]

NextGoogle == GoogleSend \/ GooglePart \/ GoogleStreamEnd \/ GoogleTools

SpecGoogle == InitGoogle /\ [][NextGoogle]_vars

\* a response stream of one of the three APIs is about to be read
InitStream ==
    /\ NoRun /\ LoopMcpState /\ NewStdioClient
    /\ reader = IdleReader
    /\ resolver = IdleResolver
    /\ g = IdleG
    /\ \E parser \in {"Anthropic", "OpenAI", "Google"} :
          tr = [IdleTr EXCEPT !.parser = parser, !.pc = "stream"]

NextStream ==
    OpenAILine \/ AnthropicLine \/ GoogleLine \/ EndOfStream \/ ChunkError

SpecStream == InitStream /\ [][NextStream]_vars

---------------------------------------------------------------------------
(* Properties *)

\* s is a prefix of t
IsPrefix(s, t) == Len(s) <= Len(t) /\ SubSeq(t, 1, Len(s)) = s

IsToolUseBlock(b) == b.type = "tool_use"
IsToolStart(e)    == e.type = "tool_start"
IsToolEnd(e)      == e.type = "tool_end"
IsStepEvent(e)    == e.type \in {"step_start", "step_done"}
IsStepToken(t)    == t.k \in {"start", "done"}

Indices(type) == {i \in 1..Len(emitted) : emitted[i].type = type}

\* the messages this run appended to the caller's history
Appended == SubSeq(messages, Len(history0) + 1, Len(messages))

\* the run is between "Add assistant message" and the tool-results message
InToolLoop == pc \in {"tool_exec", "tool_push"}

\* the ToolUse blocks of the assistant messages this run appended
RECURSIVE ToolUsesOf(_)
ToolUsesOf(msgs) ==
    IF msgs = <<>> THEN <<>>
    ELSE (IF Head(msgs).kind = "Blocks"
          THEN SelectSeq(Head(msgs).content, IsToolUseBlock) ELSE <<>>)
         \o ToolUsesOf(Tail(msgs))

\* the tool results this run has collected so far, in order
RECURSIVE ResultsOf(_)
ResultsOf(msgs) ==
    IF msgs = <<>> THEN <<>>
    ELSE (IF Head(msgs).kind = "ToolResults" THEN Head(msgs).content ELSE <<>>)
         \o ResultsOf(Tail(msgs))

AllResults == ResultsOf(Appended) \o (IF InToolLoop THEN tool_results ELSE <<>>)

\* C1: when run_with_history has returned, on any exit path, the events it
\* emitted contain exactly one terminal event (Done or Error) and it is the
\* last one.
C1_OneTerminalEventLast ==
    pc = "returned" =>
        {i \in 1..Len(emitted) : IsTerminal(emitted[i])} = {Len(emitted)}

\* C2: a run makes at most max_turns model requests and completes at most
\* max_turns turns; the only Error event of the loop is "Reached maximum
\* turns (max_turns)", it comes after exactly max_turns TurnComplete events
\* and max_turns requests, it is the last event, and the run is then leaving
\* the loop (no request, no tool call follows).
C2_TurnsBounded ==
    /\ requests <= max_turns
    /\ turn <= max_turns + 1
    /\ Len(handlerLog) = toolCalls
    /\ (pc \in {"request", "stream", "push_assistant", "tool_exec", "tool_push"}
          => turn <= max_turns)
    /\ Cardinality(Indices("turn_complete")) <= max_turns
    /\ \A i \in Indices("error") :
          /\ emitted[i].message = <<"Reached maximum turns", max_turns>>
          /\ i = Len(emitted)
          /\ Cardinality(Indices("turn_complete")) = max_turns
          /\ requests = max_turns
          /\ toolCalls = Len(ToolUsesOf(Appended))
          /\ pc \in {"break", "returned"}

C2_Witness ==
    /\ pc = "returned"
    /\ max_turns >= 2
    /\ emitted # <<>>
    /\ emitted[Len(emitted)].type = "error"
    /\ Cardinality(Indices("turn_complete")) = max_turns

\* C3: in the emitted events every ToolStart is immediately followed by the
\* ToolEnd of the same tool (or is the last event while that tool is being
\* executed), every ToolEnd immediately follows a ToolStart, and no ToolStart
\* is open once the run has returned; the k-th ToolStart is for the k-th tool
\* use the model requested.
C3_ToolStartEndPaired ==
    /\ \A i \in 1..Len(emitted) :
          /\ IsToolStart(emitted[i]) =>
                IF i < Len(emitted)
                THEN /\ IsToolEnd(emitted[i + 1])
                     /\ emitted[i + 1].tool = emitted[i].tool
                ELSE InToolLoop
          /\ IsToolEnd(emitted[i]) => (i > 1 /\ IsToolStart(emitted[i - 1]))
    /\ LET starts == SelectSeq(emitted, IsToolStart)
           uses   == ToolUsesOf(Appended)
       IN  /\ Len(starts) <= Len(uses)
           /\ \A k \in 1..Len(starts) : starts[k].tool = uses[k].name

C3_Witness ==
    \E i \in 1..Len(emitted) :
        /\ i + 3 <= Len(emitted)
        /\ IsToolStart(emitted[i])
        /\ IsToolEnd(emitted[i + 1]) /\ ~emitted[i + 1].success
        /\ IsToolStart(emitted[i + 2])
        /\ IsToolEnd(emitted[i + 3])

\* C4: every assistant message with ToolUse blocks that the run appended is
\* followed by a user tool-results message holding one ToolResult per ToolUse
\* block, with the same ids in the same order; while it is still the last
\* message the run is executing its tools and the results collected so far
\* match the first ToolUse blocks.  Every tool-results message follows such an
\* assistant message.
C4_ResultsMatchUses ==
    \A i \in (Len(history0) + 1)..Len(messages) :
        /\ messages[i].kind = "Blocks" =>
              LET uses == SelectSeq(messages[i].content, IsToolUseBlock)
                  res  == IF i < Len(messages) THEN messages[i + 1].content
                          ELSE tool_results
              IN  /\ uses # <<>>
                  /\ messages[i].role = "assistant"
                  /\ IF i < Len(messages)
                     THEN /\ messages[i + 1].role = "user"
                          /\ messages[i + 1].kind = "ToolResults"
                          /\ Len(res) = Len(uses)
                     ELSE /\ InToolLoop
                          /\ Len(res) < Len(uses)
                  /\ \A k \in 1..Len(res) : res[k].tool_use_id = uses[k].id
        /\ messages[i].kind = "ToolResults" =>
              (i > Len(history0) + 1 /\ messages[i - 1].kind = "Blocks")

C4_Witness ==
    /\ Len(messages) > Len(history0) + 1
    /\ messages[Len(messages)].kind = "ToolResults"
    /\ Len(messages[Len(messages)].content) = 2
    /\ messages[Len(messages)].content[1].is_error = "None"
    /\ messages[Len(messages)].content[2].is_error = "Some(true)"
    /\ messages[Len(messages)].content[1].tool_use_id
          # messages[Len(messages)].content[2].tool_use_id

\* C5: the history only grows at its end: the caller's starting history is a
\* prefix of the history at every point of the run, and every step of the run
\* leaves the messages it already holds unchanged and in place.
C5_AppendOnly ==
    /\ [](IsPrefix(history0, messages))
    /\ [][IsPrefix(messages, messages')]_vars

C5_Witness ==
    /\ Len(history0) = 3
    /\ Len(messages) >= Len(history0) + 3

\* C6: sending an event never stalls the loop: the loop is never suspended
\* inside a send (a full channel drops the event).
C6_SendNeverStalls == ~parked

\* C7: whenever the handler selected for a tool use fails, the ToolEnd of that
\* tool use has success=false and its ToolResult has is_error=true; the run
\* goes on: every tool use the model requested is executed, and a run returns
\* an error only from a model request.
C7_ToolErrorsDoNotTerminate ==
    LET ends == SelectSeq(emitted, IsToolEnd)
    IN  /\ Len(ends) <= Len(handlerLog)
        /\ Len(AllResults) <= Len(handlerLog)
        /\ \A k \in 1..Len(ends) :
              HandlerFailed(handlerLog[k]) => ~ends[k].success
        /\ \A k \in 1..Len(AllResults) :
              HandlerFailed(handlerLog[k]) => AllResults[k].is_error = "Some(true)"
        /\ ~InToolLoop =>
              /\ Len(handlerLog) = Len(ToolUsesOf(Appended))
              /\ Len(AllResults) = Len(handlerLog)
              /\ outbox = <<>> => Len(ends) = Len(handlerLog)
        /\ (pc = "returned" /\ result.tag = "Err") =>
              result.error \in {"Unsupported API format", "HTTP error", "API error",
                                "Stream error", "No response received"}

C7_Witness ==
    \E k \in 1..Len(handlerLog) :
        /\ HandlerFailed(handlerLog[k])
        /\ handlerLog[k] = "timeout"
        /\ Len(handlerLog) > k
        /\ HandlerFailed(handlerLog[k + 1])
        /\ requests >= 2
        /\ Len(SelectSeq(emitted, IsToolEnd)) = Len(handlerLog)

\* C8: when a run fails on a model request in a turn after the first, the
\* caller obtains the history accumulated up to the failure.
C8_ErrReturnsHistory ==
    (pc = "returned" /\ result.tag = "Err" /\ turn > 1) =>
        /\ "messages" \in DOMAIN result
        /\ result.messages = messages

\* the step markers of a text as events, left to right
SourceOrderMarkers(text) ==
    LET marks == SelectSeq(text, IsStepToken)
    IN  [i \in 1..Len(marks) |->
            IF marks[i].k = "start" THEN EvStepStart(marks[i].n)
            ELSE EvStepDone(marks[i].n)]

\* C9: the StepStart/StepDone events of a turn are emitted in the
\* left-to-right order of the markers in the assistant text.
C9_MarkersInSourceOrder ==
    (pc = "returned" /\ result.tag = "Ok") =>
        SelectSeq(emitted, IsStepEvent) = SourceOrderMarkers(text_content)

\* C10: within one turn at most one Plan event is emitted and no
\* StepStart/StepDone event of the turn precedes it.
C10_OnePlanBeforeSteps ==
    /\ Cardinality(Indices("plan")) <= 1
    /\ \A i \in Indices("plan") :
          \A j \in 1..Len(emitted) : IsStepEvent(emitted[j]) => i < j

C10_Witness ==
    /\ pc = "returned"
    /\ Len(Matches(text_content, "popen", 1)) >= 2
    /\ Len(Matches(text_content, "line", 1)) >= 2
    /\ Indices("plan") # {}
    /\ \E j \in 1..Len(emitted) : IsStepEvent(emitted[j])

IsText(e)      == e.type = "text"
IsTextBlock(b) == b.type = "text"
IsAssistant(m) == m.role = "assistant"

\* the turn an emitted event belongs to: one more than the number of
\* TurnComplete events before it
TurnOf(i) == 1 + Cardinality({j \in 1..(i - 1) : emitted[j].type = "turn_complete"})

\* the text an assistant message stores
TextOf(m) ==
    IF m.kind = "Text" THEN m.content
    ELSE LET tb == SelectSeq(m.content, IsTextBlock)
         IN  IF tb = <<>> THEN <<>> ELSE tb[1].text

\* the assistant messages this run stored; the k-th one is that of turn k
AssistantMessages == SelectSeq(Appended, IsAssistant)

\* C11: within one turn the Text events are monotonic in prefix (the content
\* of each Text event extends the content of every earlier Text event of the
\* same turn), and once the assistant message of the turn is stored, the last
\* Text event of the turn carries exactly the text of that message (a turn
\* with a non-empty text has such an event).
C11_TextEventsCumulative ==
    /\ \A i \in Indices("text") : \A j \in Indices("text") :
          (i < j /\ TurnOf(i) = TurnOf(j)) =>
              IsPrefix(emitted[i].content, emitted[j].content)
    /\ \A k \in 1..Len(AssistantMessages) :
          LET texts  == {i \in Indices("text") : TurnOf(i) = k}
              stored == TextOf(AssistantMessages[k])
          IN  /\ stored # <<>> => texts # {}
              /\ \A i \in texts :
                    (\A j \in texts : j <= i) => emitted[i].content = stored

C11_Witness ==
    /\ Len(AssistantMessages) >= 2
    /\ \E i \in Indices("text") : \E j \in Indices("text") :
          /\ i < j
          /\ TurnOf(i) = 2
          /\ TurnOf(j) = 2
          /\ Len(emitted[i].content) < Len(emitted[j].content)
          /\ emitted[j].content = TextOf(AssistantMessages[2])

\* C12: a tool call dispatched under the encoded name of a registered tool
\* (server_id, tool_name) invokes that server and that tool.
C12_SafeNameRoundTrip ==
    \A t \in Tasks :
        (task[t].op = "execute" /\ task[t].intended # NoCall) =>
            task[t].call = task[t].intended

\* C13: when connect_server has returned an error for an enabled server, the
\* status of the server is Error with last_error the returned message, no
\* sidecar is registered for it and no child process of it is alive.
C13_FailedConnectCleansUp ==
    \A t \in Tasks :
        (task[t].op = "connect" /\ task[t].pc = "connect_returned"
            /\ task[t].ret # "Ok" /\ task[t].config.enabled) =>
            /\ server_status[task[t].id].status = "Error"
            /\ server_status[task[t].id].last_error = task[t].ret
            /\ managed_processes[task[t].id] = 0
            /\ \A p \in procs : p.server_id # task[t].id

\* the positions of connect_server between the Connecting insert and the
\* Connected insert
ConnectInProgress ==
    {"spawn", "oauth", "http_init", "stdio_attempt", "tools", "insert_client",
     "publish"}

\* C14: when connect_server has returned Ok, the status of the server is
\* Connected, the clients map holds a client of the configured transport, and
\* the published tools are the tools of the tools/list response, in order,
\* each tagged with the server id; while the call is under way the status is
\* Connecting.
C14_ConnectOkPublishes ==
    \A t \in Tasks :
        /\ (task[t].op = "connect" /\ task[t].pc = "connect_returned"
               /\ task[t].ret = "Ok") =>
              /\ server_status[task[t].id].status = "Connected"
              /\ server_status[task[t].id].last_error = "None"
              /\ clients[task[t].id].kind =
                    (IF normalize_transport(task[t].config.transport) = "http"
                     THEN "Http" ELSE "Stdio")
              /\ server_status[task[t].id].tools =
                    [i \in 1..Len(task[t].listed) |->
                        [server_id |-> task[t].id, name |-> task[t].listed[i]]]
        /\ (task[t].op = "connect" /\ task[t].pc \in ConnectInProgress) =>
              server_status[task[t].id].status = "Connecting"

C14_Witness ==
    \E t \in Tasks :
        /\ task[t].op = "connect"
        /\ task[t].pc = "connect_returned"
        /\ task[t].ret = "Ok"
        /\ task[t].id = Srv2
        /\ Len(task[t].listed) = 2
        /\ server_status[Srv1].status = "Connected"

\* C15: a connect of an HTTP server with the default startup timeout whose
\* initialize starts to succeed 19.9 s after the retry loop began returns Ok
\* (unless the later tools/list fails).
C15_LateServerConnected ==
    \A t \in Tasks :
        (task[t].op = "connect" /\ task[t].pc = "connect_returned"
            /\ task[t].ret # ErrToolsList) =>
            /\ task[t].ret = "Ok"
            /\ server_status[task[t].id].status = "Connected"

\* C16: an MCP tool call whose 60 s timer fires yields a failed result with
\* the error "Tool execution timed out after 60 seconds": the ToolEnd of that
\* tool use has success=false and carries that error, so does the collected
\* ToolResult (is_error=true); the loop is never waiting in its tool phase
\* (with no event left to send, its next step is enabled), and after the
\* run has left the tool phase every tool use was executed.
C16_TimeoutIsToolError ==
    LET ends == SelectSeq(emitted, IsToolEnd)
    IN  /\ \A k \in 1..Len(handlerLog) :
              handlerLog[k] = "timeout" =>
                  /\ k <= Len(ends) =>
                        /\ ~ends[k].success
                        /\ ends[k].result = TimeoutResult.error
                  /\ k <= Len(AllResults) =>
                        /\ AllResults[k].is_error = "Some(true)"
                        /\ AllResults[k].content = TimeoutResult.error
                  /\ (k = Len(handlerLog) /\ pc = "tool_push") =>
                        /\ curResult.is_error = "Some(true)"
                        /\ curResult.content = TimeoutResult.error
        /\ (pc = "tool_exec" /\ outbox = <<>>) => ENABLED ExecuteTool
        /\ (pc = "tool_push" /\ outbox = <<>>) => ENABLED NextTool
        /\ ~InToolLoop => Len(handlerLog) = Len(ToolUsesOf(Appended))

C16_Witness ==
    /\ Len(handlerLog) >= 2
    /\ handlerLog[1] = "timeout"
    /\ Len(SelectSeq(emitted, IsToolEnd)) >= 2
    /\ requests >= 2
    /\ pc = "stream"

\* C17: while a tool call is awaiting its transport, a connect or a disconnect
\* of another server that has reached its write access to the clients map is
\* not kept waiting: no read guard is held.
C17_WritersNotBlockedByToolCall ==
    \A t \in Tasks : \A u \in Tasks :
        (task[t].pc = "transport"
            /\ task[u].pc \in {"insert_client", "remove_client"}
            /\ task[u].id # task[t].call.server_id) =>
            clients_readers = {}

\* C18: when disconnect_server has returned for a server that had a status
\* entry, the server has no client and no registered sidecar, no sidecar of
\* it is alive, and its status is Disconnected with no tools, no pid, no
\* last_error and managed_process false.
C18_DisconnectClears ==
    \A t \in Tasks :
        (task[t].pc = "disconnect_returned" /\ task[t].prior # "Absent") =>
            /\ clients[task[t].id] = NoClient
            /\ managed_processes[task[t].id] = 0
            /\ \A p \in procs : ~(p.server_id = task[t].id /\ p.kind = "sidecar")
            /\ server_status[task[t].id] =
                  [status |-> "Disconnected", tools |-> <<>>, last_error |-> "None",
                   managed_process |-> FALSE, pid |-> 0]

C18_Witness ==
    \E t \in Tasks :
        /\ task[t].pc = "disconnect_returned"
        /\ task[t].id = Srv1
        /\ task[t].prior = "Connected"
        /\ next_pid > 1
        /\ server_status[Srv2].status = "Error"

\* C19: a connect command that directly follows the disconnect command of a
\* server that was Connected, and during which nothing in the environment
\* fails, leaves the server Connected.
C19_ReconnectEndsConnected ==
    \A t \in Tasks :
        (task[t].op = "connect" /\ task[t].pc = "connect_returned"
            /\ task[t].prior = "disconnect_of_connected"
            /\ task[t].ret \in {"Ok", ErrNotEnabled}) =>
            server_status[task[t].id].status = "Connected"

\* C20: within one stdio client the request ids drawn are pairwise different;
\* a request that has written its message holds the mutex of the
\* stdin/stdout pair until it returns (so at most one request is reading);
\* a message it discards is one that does not carry its id, and the
\* message a request returns carries the id of that request.
C20_RequestsSerializedAndCorrelated ==
    /\ \A i \in 1..Len(issued) : \A j \in 1..Len(issued) :
          i # j => issued[i] # issued[j]
    /\ \A r \in Requesters :
          /\ sreq[r].pc = "read" => inner_owner = r
          /\ sreq[r].pc # "read" => inner_owner # r
          /\ ~(sreq[r].discarded.has_id /\ sreq[r].discarded.id = sreq[r].id)
          /\ (sreq[r].pc = "returned" /\ sreq[r].ret = "Ok") =>
                /\ sreq[r].got.has_id
                /\ sreq[r].got.id = sreq[r].id
                /\ sreq[r].got.kind = "response"

C20_Witness ==
    \E r \in Requesters : \E q \in Requesters :
        /\ sreq[r].pc = "returned"
        /\ sreq[r].ret = "Ok"
        /\ sreq[r].id = 2
        /\ sreq[r].discarded = Response(1)
        /\ q # r
        /\ sreq[q].pc = "returned"

\* a line of a prelude: empty, or neither the start of a JSON object nor a
\* valid Content-Length header
IsPreludeLine(line) == line.k \in {"blank", "banner", "log_colon", "bad_length"}

\* the number of lines of the longest prelude the output starts with
RECURSIVE PreludeLen(_)
PreludeLen(text) ==
    IF text # <<>> /\ IsPreludeLine(Head(text)) THEN 1 + PreludeLen(Tail(text))
    ELSE 0

\* the output after its prelude starts with a protocol message: a JSON line,
\* or a Content-Length header, the blank line and a body of that length
FirstMessage(text) ==
    LET rest == SubSeq(text, PreludeLen(text) + 1, Len(text))
    IN  IF rest # <<>> /\ rest[1].k = "json" THEN ReadOk(rest[1])
        ELSE IF Len(rest) >= 3 /\ rest[1].k = "length" /\ rest[2].k = "blank"
                /\ rest[3].k = "json" /\ rest[3].n = rest[1].n
        THEN ReadOk(rest[3])
        ELSE NoRead

\* C21: when read_framed_json has returned for an output that is a prelude
\* followed by a protocol message (a JSON line or a framed message), it has
\* returned that message.
C21_PreludeSkipped ==
    (reader.pc = "returned" /\ FirstMessage(reader.all) # NoRead) =>
        reader.ret = FirstMessage(reader.all)


C23_DroppedConnectKillsSidecar ==
    \A id \in ServerIds :
        (cmd_history[id] = "sidecar_connect_dropped" /\ ~Busy(id)) =>
            /\ managed_processes[id] = 0
            /\ ~\E p \in procs : p.kind = "sidecar" /\ p.server_id = id

\* the rules of provider resolution in the claimed order: the test on the
\* lower-cased name, the provider id and the API format
ResolutionRules(m) ==
    << <<\E p \in {Lit.anthropic, Lit.openai, Lit.meta_llama, Lit.deepseek} :
            StartsWith(m, p), "openrouter", "OpenAICompatible">>,
       <<contains(m, Lit.colon), "ollama", "OpenAICompatible">>,
       <<contains(m, Lit.claude), "anthropic", "Anthropic">>,
       <<contains(m, Lit.gpt5), "openai", "OpenAIResponses">>,
       <<contains(m, Lit.gpt), "openai", "OpenAI">>,
       <<contains(m, Lit.gemini), "google", "Google">>,
       <<contains(m, Lit.minimax), "minimax", "Minimax">>,
       <<TRUE, "anthropic", "Anthropic">> >>

FirstRule(rules) ==
    CHOOSE i \in 1..Len(rules) : rules[i][1] /\ \A j \in 1..(i - 1) : ~rules[j][1]

\* C24: a resolved model name has the provider and the API format of the
\* first rule, in the order OpenRouter prefix, ':', claude, gpt-5, gpt,
\* gemini, minimax, default, that its name meets; claude-3.5-sonnet is
\* Anthropic, gpt-5-mini OpenAIResponses, llama3.3:latest ollama and
\* anthropic/claude-3.5-sonnet openrouter.
C24_ResolutionPrecedence ==
    resolver.pc = "resolved" =>
        LET m == to_lowercase(resolver.model)
            rules == ResolutionRules(m)
            rule == rules[FirstRule(rules)]
        IN  /\ resolver.config.id = rule[2]
            /\ resolver.config.api_format = rule[3]
            /\ resolver.model = Lit.sonnet =>
                  resolver.config.api_format = "Anthropic"
            /\ resolver.model = Lit.gpt5 \o Lit.mini =>
                  resolver.config.api_format = "OpenAIResponses"
            /\ resolver.model = Lit.llama \o Lit.latest =>
                  resolver.config.id = "ollama"
            /\ resolver.model = Lit.anthropic \o Lit.sonnet =>
                  resolver.config.id = "openrouter"

\* a name with an OpenRouter prefix and a ':' was resolved
C24_Witness ==
    /\ resolver.pc = "resolved"
    /\ resolver.model = Lit.anthropic \o Lit.latest
    /\ resolver.config.id = "openrouter"

\* the parts of kind k of the last request, in order
RequestParts(k) ==
    LET RECURSIVE Flat(_)
        Flat(cs) == IF cs = <<>> THEN <<>> ELSE Head(cs).parts \o Flat(Tail(cs))
    IN  SelectSeq(Flat(g.request), LAMBDA p : p.kind = k)

\* C25: in every request of a Google run, the functionCall parts are the
\* function calls received before it, in order, each with the
\* thoughtSignature it was received with or none if it had none, and each of
\* these calls has one functionResponse part, named by its id, that carries
\* the same signature or none.
C25_SignatureRoundTrip ==
    g.sent > 0 =>
        /\ Len(RequestParts("functionCall")) = g.echoed
        /\ \A k \in 1..g.echoed :
              /\ RequestParts("functionCall")[k].thoughtSignature = g.received[k].sig
              /\ \E j \in 1..Len(RequestParts("functionResponse")) :
                    RequestParts("functionResponse")[j].name = g.received[k].id
              /\ \A j \in 1..Len(RequestParts("functionResponse")) :
                    RequestParts("functionResponse")[j].name = g.received[k].id =>
                        RequestParts("functionResponse")[j].thoughtSignature =
                            g.received[k].sig

\* a third request echoes a signed call of the first turn, an unsigned call
\* and a call with another signature
C25_Witness ==
    /\ g.sent = 3
    /\ g.echoed = 3
    /\ g.received[1].sig = "sigA"
    /\ \E k \in 2..3 : g.received[k].sig = "absent"
    /\ \E k \in 2..3 : g.received[k].sig = "sigB"
    /\ RequestParts("functionResponse")[1].thoughtSignature = "sigA"

\* C27: the steps of every Plan event start at number 1 and their numbers
\* increase in the order of the list.
C27_PlanStepsFromOneIncreasing ==
    \A e \in Indices("plan") :
        LET steps == emitted[e].steps
        IN  /\ steps[1].step = 1
            /\ \A i, j \in 1..Len(steps) : i < j => steps[i].step < steps[j].step

\* positions of the lines of kind k in the log
LinesOf(k) == {n \in 1..Len(tr.log) : tr.log[n].k = k}

\* the argument fragments of slot i among the first n lines, in arrival order
RECURSIVE SlotArgs(_, _)
SlotArgs(i, n) ==
    IF n = 0 THEN <<>>
    ELSE SlotArgs(i, n - 1) \o
         (IF tr.log[n].k = "args" /\ tr.log[n].index = i
          THEN <<tr.log[n].frag>> ELSE <<>>)

\* the tool uses handed over so far for slot i
SurfacedFor(i) == {j \in 1..Len(tr.tool_calls) : tr.tool_calls[j].id = <<"call", i>>}

\* C26: once a finish_reason was read from an OpenAI stream, every index
\* slot that had received fragments has exactly one ToolUse, whose input is
\* the parse of the slot's argument fragments concatenated in arrival order.
C26_OneToolUsePerSlot ==
    (tr.parser = "OpenAI" /\ LinesOf("finish") # {}) =>
        LET n == CHOOSE f \in LinesOf("finish") : \A f2 \in LinesOf("finish") : f <= f2
        IN  \A i \in {0, 1} :
                (\E m \in 1..n : tr.log[m].k \in {"open", "args"} /\ tr.log[m].index = i)
                => /\ Cardinality(SurfacedFor(i)) = 1
                   /\ \A j \in SurfacedFor(i) :
                         tr.tool_calls[j].input =
                             from_str_unwrap_or_empty(SlotArgs(i, n))

\* C28: the tool uses an OpenAI stream with one finish_reason returns are in
\* ascending order of their index slots.
C28_ToolUsesSortedByIndex ==
    (tr.parser = "OpenAI" /\ tr.pc = "returned" /\ tr.ret.tag = "Ok"
        /\ Cardinality(LinesOf("finish")) = 1) =>
        \A j, k \in 1..Len(tr.ret.content) :
            (j < k /\ tr.ret.content[j].type = "tool_use"
                   /\ tr.ret.content[k].type = "tool_use") =>
                tr.ret.content[j].id[2] < tr.ret.content[k].id[2]

\* the stream delivered text or a complete tool use
UsableContent ==
    \/ LinesOf("text") \cup LinesOf("text_delta") \cup LinesOf("call") # {}
    \/ \E a \in LinesOf("open"), b \in LinesOf("finish") : a < b
    \/ \E a \in LinesOf("tool_start"), b \in LinesOf("block_stop") : a < b

\* C29: a stream that ends (without a transport error) fails the turn if and
\* only if it delivered no usable content, for each of the three parsers.
C29_FatalIffNothingUsable ==
    (tr.pc = "returned" /\ tr.ret.error # "Stream error") =>
        (tr.ret.tag = "Err" <=> ~UsableContent)

\* the json_delta fragments between line m and line n
RECURSIVE InputBetween(_, _)
InputBetween(m, n) ==
    IF n <= m THEN <<>>
    ELSE InputBetween(m, n - 1) \o
         (IF tr.log[n].k = "json_delta" THEN <<tr.log[n].frag>> ELSE <<>>)

\* C30: a tool call whose accumulated arguments do not parse is surfaced
\* with its id, its name and input {}: at an OpenAI finish_reason for every
\* slot that has id and name, at an Anthropic content_block_stop for the
\* tool use it closes; and no handler fails because of the arguments.
C30_MalformedArgumentsSurfaced ==
    /\ tr.parser = "OpenAI" =>
          \A n \in LinesOf("finish"), i \in {0, 1} :
              ((\E m \in LinesOf("open") : m < n /\ tr.log[m].index = i)
                  /\ from_str(SlotArgs(i, n)) = <<>>) =>
                  \E j \in 1..Len(tr.tool_calls) :
                      tr.tool_calls[j] =
                          ToolUseJson(<<"call", i>>, <<"read_file">>, "{}")
    /\ tr.parser = "Anthropic" =>
          \A m \in LinesOf("tool_start"), n \in LinesOf("block_stop") :
              (m < n /\ (\A x \in LinesOf("tool_start") \cup LinesOf("block_stop") :
                            ~(m < x /\ x < n))
                     /\ from_str(InputBetween(m, n)) = <<>>) =>
                  \E j \in 1..Len(tr.tool_calls) :
                      tr.tool_calls[j] =
                          ToolUseJson(
                              <<"toolu", Cardinality({x \in LinesOf("tool_start") : x <= m})>>,
                              <<"read_file">>, "{}")
    /\ tr.ret.error \in {"", "Stream error", "No response received"}

\* an Anthropic stream whose tool use had partial arguments has ended with
\* message_stop and returned that tool use with input {}
C30_Witness ==
    /\ tr.parser = "Anthropic" /\ tr.pc = "returned" /\ tr.ret.tag = "Ok"
    /\ \E m \in LinesOf("tool_start"), n \in LinesOf("block_stop") :
          m < n /\ InputBetween(m, n) = <<"{a:">>
    /\ \E j \in 1..Len(tr.ret.content) :
          tr.ret.content[j] = ToolUseJson(<<"toolu", 1>>, <<"read_file">>, "{}")

\* C31: the k-th TurnComplete event of a run carries turn k, and a Done
\* event carries total_turns equal to the number of TurnComplete events
\* before it plus one, which is the number of requests made.
C31_TurnNumbering ==
    /\ \A i \in Indices("turn_complete") :
          emitted[i].turn = Cardinality({j \in Indices("turn_complete") : j <= i})
    /\ \A i \in Indices("done") :
          /\ emitted[i].total_turns =
                Cardinality({j \in Indices("turn_complete") : j < i}) + 1
          /\ emitted[i].total_turns = requests

\* a run that executed tools in its first turn has ended with Done
C31_Witness ==
    /\ Indices("turn_complete") # {}
    /\ \E i \in Indices("done") : emitted[i].total_turns = 2

\* C32: while no connect or disconnect runs for a server, it has a client
\* in the clients map if and only if its status is Connected.
C32_ClientIffConnected ==
    \A id \in ServerIds :
        ~Busy(id) =>
            (clients[id] # NoClient <=> server_status[id].status = "Connected")

\* C33: when a connect_server that began before any command had returned
\* has returned, a disconnect_server that found the server Connecting has
\* returned too, and no command was issued since, the server is Disconnected
\* with no client and no managed process.
C33_DisconnectDuringConnectWins ==
    \A t \in Tasks :
        (/\ task[t].pc = "connect_returned" /\ task[t].prior = "none"
         /\ cmd_history[task[t].id] = "disconnect_during_connect"
         /\ \A u \in Tasks \ {t} : task[u].pc = "idle") =>
            /\ server_status[task[t].id].status = "Disconnected"
            /\ clients[task[t].id] = NoClient
            /\ managed_processes[task[t].id] = 0
            /\ ~\E p \in procs : p.kind = "sidecar" /\ p.server_id = task[t].id

\* C34: each server has at most one live sidecar, and every live sidecar
\* whose start_managed_process_if_needed call has returned is the one
\* registered in managed_processes.
C34_OneRegisteredSidecar ==
    \A id \in ServerIds :
        LET live == {p \in procs : p.kind = "sidecar" /\ p.server_id = id}
        IN  /\ Cardinality(live) <= 1
            /\ \A p \in live :
                  \/ managed_processes[id] = p.pid
                  \/ \E t \in Tasks : task[t].pc = "spawn_sleep" /\ task[t].child = p.pid

\* C35: every connect_server call that has started returns, and when it has
\* returned after announcing Connecting the status is Connected or Error
C35_ConnectReturns ==
    \A t \in CommandTasks :
        (task[t].op = "connect" /\ task[t].pc # "connect_returned")
            ~> (/\ task[t].pc = "connect_returned"
                /\ server_status[task[t].id].status # "Connecting")

\* C36: a request that has returned and that the child answered with a
\* correct frame has returned its own response, whatever earlier requests
\* the timeout dropped.
C36_DroppedCallLeavesClientUsable ==
    \A r \in Requesters :
        (sreq[r].pc = "returned" /\ sreq[r].id \in answered) =>
            (sreq[r].ret = "Ok" /\ sreq[r].got = Response(sreq[r].id))

\* C37: the first request of a run on a configuration resolved by from_preset
\* or from_model is dispatched to a sender, never refused as an unsupported
\* API format.
C37_ResolvedFormatDispatched ==
    resolver.pc = "sent" => resolver.ret # "Unsupported API format"

\* C38: the tool uses collected in one OpenAI turn have pairwise different
\* ids, so no index slot has surfaced twice, however many chunks or choices
\* carried a finish_reason.
C38_NoDuplicateToolUse ==
    tr.parser = "OpenAI" =>
        \A j, k \in 1..Len(tr.tool_calls) :
            j # k => tr.tool_calls[j].id # tr.tool_calls[k].id

\* C39: when run_task_agent has returned, the task is "completed" exactly if
\* the run sent a Done event, and it is "failed" if the run sent an Error
\* event or returned an error.
C39_StatusAgreesWithTerminalEvent ==
    pc = "task_returned" =>
        /\ task_status = "completed" <=> Indices("done") # {}
        /\ (Indices("error") # {} \/ result.tag = "Err") => task_status = "failed"

\* C40: a step in which connect_server returns "Server is not enabled" leaves
\* the clients, the statuses, the managed processes and the live child
\* processes as they were.
C40_NotEnabledChangesNothing ==
    [][(\E t \in Tasks : /\ task[t].pc = "idle"
                         /\ task'[t].pc = "connect_returned"
                         /\ task'[t].ret = ErrNotEnabled)
        => UNCHANGED <<clients, server_status, managed_processes, procs>>]_vars

\* a disabled server is refused while it has a status entry and the other
\* server is connected
C40_Witness ==
    \E t \in Tasks :
        /\ task[t].pc = "connect_returned" /\ task[t].ret = ErrNotEnabled
        /\ server_status[task[t].id].status = "Disconnected"
        /\ \E id \in ServerIds : clients[id] # NoClient

====
